---- MODULE Spec2Model ----
(***************************************************************************)
(* Yuxi-Know voice gateway: the Doubao realtime client, the per-connection *)
(* WebSocket handler, the interrupt handler, the streaming TTS generator,  *)
(* the binary frame codec, the session manager and the audio stream        *)
(* handler, each as a state machine over its own variables.  Every         *)
(* specification below runs one component and holds the variables of the   *)
(* others at their initial values.                                         *)
(***************************************************************************)
EXTENDS Integers, Sequences, FiniteSets, TLC

VARIABLES
    \* DoubaoRealtimeClient (doubao_realtime.py)
    ws,                 \* "none" (self.ws is None) | "open" | "dead" (handle of a closed channel)
    connected,          \* self._connected
    session_id,         \* self.session_id: NoSession or a generated id
    acked,              \* history: SESSION_STARTED was received for session_id
    orphans,            \* history: the channels still open that self.ws no longer names
    call,               \* history: the last client method called directly, with its result
    \* voice_websocket (voice_router.py)
    interrupt_enabled,  \* the connection's configuration flag
    is_listening,
    receive_task,       \* "none" | "live" | "done" | "cancelled"
    liveTasks,          \* history: handle_doubao_events tasks created and not yet ended
    conn,               \* "connecting" before the handler accepts, "open" while the message
                        \* loop runs, "timed_out" once the timeout task has closed the
                        \* socket, "closed" after a rejection or the finally block
    status,             \* the last status event sent to the browser
    out,                \* the events sent to the browser by the last step
    last,               \* history: what the last step was and did
    current_asr_text,   \* TRUE when the accumulated final ASR text is non-empty
    knowledges,         \* TRUE when the agent configuration lists knowledge bases
    upTurn,             \* environment: where the upstream session is in its turn
    loop_time,          \* environment: asyncio.get_event_loop().time(), in check intervals
    last_activity_time, \* last_activity_time
    last_inbound,       \* history: when receive_json last returned a message
    timeout_task,       \* "none" | "sleeping" | "woken" (its sleep has ended, its check
                        \* has not run) | "done" (it closed the socket) | "cancelled"
    \* InterruptHandler (interrupt_handler.py)
    is_tts_playing,     \* self._is_tts_playing
    pending_tasks,      \* self._pending_tasks: task ids, in the order they were added
    interrupt_event,    \* self._interrupt_event.is_set()
    task_state,         \* environment: each asyncio task's state
    delivered,          \* history: the tasks that ran to completion and delivered their audio
    ih_last,            \* history: the last InterruptHandler call and what it returned
    \* synthesize_stream (tts_service.py)
    text_chunks,        \* the fragments the text stream has yet to yield
    text_buffer,        \* text_buffer
    tts_pc,             \* "read" | "scan" | "synth" | "final" | "done" | "raised"
    inflight,           \* the units whose synthesis has started and not ended
    emitted,            \* history: per audio chunk yielded, the source offset of its unit
    consumed,           \* history: the characters cut from the front of the stream so far
    source,             \* history: the whole text of the stream
    cuts,               \* history: the pieces cut from the buffer, each with its unit
    \* the frame codec (doubao_realtime.py)
    cd_in,              \* the fields a frame is built from
    cd_frame,           \* the bytes built, possibly cut short
    cd_cut,             \* TRUE when cd_frame is a proper prefix of the frame built
    cd_res,             \* what _parse_response returned for cd_frame
    cd_pc,              \* "input" | "built" | "parsed"
    \* finish_session, step by step (doubao_realtime.py)
    fin_pc,             \* "idle" | "waiting" (in the wait loop) | "returned" | "raised"
    fin_clock,          \* seconds the current wait_for(self.ws.recv()) has waited
    \* VoiceSessionManager (session_manager.py)
    sessions,           \* self.sessions: session id -> VoiceSession
    session_timeout,    \* self.session_timeout
    now,                \* environment: time.time(), in half seconds
    sm_last,            \* history: the last call on the manager or a session, and its result
    cleanup_task,       \* self._cleanup_task: None (0) or the task start() created last
    loops,              \* environment: each _cleanup_loop task's state
    lc_last,            \* history: the last start() or stop(), and whether it raised
    \* AudioStreamHandler (audio_handler.py)
    input_queue,        \* self._input_queue, oldest item first
    output_queue,       \* self._output_queue, oldest item first
    is_speaking,        \* self._is_speaking
    ah_last,            \* history: the last AudioStreamHandler call
    stopped,            \* history: stop() has been called
    in_done,            \* the generator of get_input_stream has ended
    out_done,           \* the generator of get_output_stream has ended
    \* retry_with_backoff (error_handler.py)
    config,             \* the RetryConfig of the call
    attempt,            \* the loop variable
    last_exception,     \* None (<<>>) or the exception caught last
    rt_pc,              \* "loop" | "sleeping" | "returned" | "raised"
    rt_out,             \* the value returned or the exception raised, <<>> before
    rt_log              \* history: the calls of func and the sleeps, in order

clientVars  == <<ws, connected, session_id, acked, orphans>>
gatewayVars == <<interrupt_enabled, is_listening, receive_task, liveTasks, conn,
                 status, out, last, current_asr_text, knowledges, upTurn>>

idleVars == <<loop_time, last_activity_time, last_inbound, timeout_task>>

interruptVars == <<is_tts_playing, pending_tasks, interrupt_event, task_state, delivered,
                   ih_last>>

ttsVars == <<text_chunks, text_buffer, tts_pc, inflight, emitted, consumed>>

ttsHist == <<source, cuts>>

codecVars == <<cd_in, cd_frame, cd_cut, cd_res, cd_pc>>

finishVars == <<fin_pc, fin_clock>>

registryVars == <<sessions, session_timeout, now, sm_last>>

audioVars == <<input_queue, output_queue, is_speaking, ah_last, stopped, in_done, out_done>>

lifecycleVars == <<cleanup_task, loops, lc_last>>

retryVars == <<config, attempt, last_exception, rt_pc, rt_out, rt_log>>

vars == <<clientVars, call, gatewayVars, idleVars, interruptVars, ttsVars, ttsHist, codecVars,
          finishVars, registryVars, lifecycleVars, audioVars, retryVars>>

\* what each component leaves alone
notClient    == <<gatewayVars, idleVars, interruptVars, ttsVars, ttsHist, codecVars, finishVars,
                  registryVars, audioVars, retryVars, lifecycleVars>>
notGateway   == <<call, interruptVars, ttsVars, ttsHist, codecVars, finishVars, registryVars,
                  audioVars, retryVars, lifecycleVars>>
notInterrupt == <<clientVars, call, gatewayVars, idleVars, ttsVars, ttsHist, codecVars,
                  finishVars, registryVars, audioVars, retryVars, lifecycleVars>>
notTTS       == <<clientVars, call, gatewayVars, idleVars, interruptVars, codecVars, finishVars,
                  registryVars, audioVars, retryVars, lifecycleVars>>
notCodec     == <<clientVars, call, gatewayVars, idleVars, interruptVars, ttsVars, ttsHist,
                  finishVars, registryVars, audioVars, retryVars, lifecycleVars>>
notFinish    == <<call, gatewayVars, idleVars, interruptVars, ttsVars, ttsHist, codecVars,
                  registryVars, audioVars, retryVars, lifecycleVars>>
notRegistry  == <<clientVars, call, gatewayVars, idleVars, interruptVars, ttsVars, ttsHist,
                  codecVars, finishVars, audioVars, retryVars, lifecycleVars>>
notRetry     == <<clientVars, call, gatewayVars, idleVars, interruptVars, ttsVars, ttsHist,
                  codecVars, finishVars, registryVars, audioVars, lifecycleVars>>
notLifecycle == <<clientVars, call, gatewayVars, idleVars, interruptVars, ttsVars, ttsHist,
                  codecVars, finishVars, registryVars, audioVars, retryVars>>
notAudio     == <<clientVars, call, gatewayVars, idleVars, interruptVars, ttsVars, ttsHist,
                  codecVars, finishVars, registryVars, retryVars, lifecycleVars>>

-----------------------------------------------------------------------------
(* DoubaoRealtimeClient *)

NoSession == 0

\* uuid.uuid4(): an id different from the one held before
NewSessionId(old) == IF old = 1 THEN 2 ELSE 1

\* the channels a client may leave behind
MaxOrphans == 1

Client == [ws |-> ws, connected |-> connected, session_id |-> session_id, acked |-> acked,
           orphans |-> orphans]

InitClient == [ws |-> "none", connected |-> FALSE, session_id |-> NoSession, acked |-> FALSE,
               orphans |-> 0]

SetClient0 ==
    /\ ws = InitClient.ws
    /\ connected = InitClient.connected
    /\ session_id = InitClient.session_id
    /\ acked = InitClient.acked
    /\ orphans = InitClient.orphans

SetClient(c) ==
    /\ ws' = c.ws
    /\ connected' = c.connected
    /\ session_id' = c.session_id
    /\ acked' = c.acked
    /\ orphans' = c.orphans

is_connected(c) == c.connected /\ c.ws # "none"

\* what the channel does during connect()
ConnectOutcomes == {"open_raises", "send_raises", "recv_raises", "ack", "other", "garbage"}
\* what the channel does during start_session(): the send, then the awaited reply
StartOutcomes == {"send_raises", "recv_raises", "ack", "other"}
\* what the channel does during finish_session(): the send, then the wait loop
FinishOutcomes == {"send_raises", "finished", "failed", "timeout", "recv_raises"}

\* the result of a client method: the client afterwards, the value returned,
\* whether an exception left the method, the frames written to the channel
Result(c, ret, raised, sent) == [c |-> c, ret |-> ret, raised |-> raised, sent |-> sent]

\* ws.send(frame) on the handle c holds
SendRaises(c, o) == c.ws # "open" \/ o = "send_raises"

\* self.ws = await websockets.connect(...): the channel self.ws named before is
\* not closed
open_channel(c) == [c EXCEPT !.orphans = IF c.ws = "open" THEN @ + 1 ELSE @]

connect(c, o) ==
    IF o = "open_raises"
    THEN Result(c, FALSE, FALSE, 0)
    ELSE LET c1 == open_channel(c)
         IN IF o = "send_raises"
            THEN Result([c1 EXCEPT !.ws = "dead"], FALSE, FALSE, 0)
            ELSE IF o = "recv_raises"
            THEN Result([c1 EXCEPT !.ws = "dead"], FALSE, FALSE, 1)
            ELSE IF o = "ack"
            THEN Result([c1 EXCEPT !.ws = "open", !.connected = TRUE], TRUE, FALSE, 1)
            ELSE Result([c1 EXCEPT !.ws = "open"], FALSE, FALSE, 1)

start_session(c, o) ==
    IF ~c.connected
    THEN Result(c, NoSession, FALSE, 0)
    ELSE LET sid == NewSessionId(c.session_id)
             c1  == [c EXCEPT !.session_id = sid, !.acked = FALSE]
         IN IF SendRaises(c1, o)
            THEN Result([c1 EXCEPT !.ws = IF c.ws = "none" THEN "none" ELSE "dead"],
                        NoSession, TRUE, 0)
            ELSE IF o = "recv_raises"
            THEN Result([c1 EXCEPT !.ws = "dead"], NoSession, TRUE, 1)
            ELSE IF o = "ack"
            THEN Result([c1 EXCEPT !.acked = TRUE], sid, FALSE, 1)
            ELSE Result(c1, NoSession, FALSE, 1)

\* a finish_session that forgets the session only once the frame has been sent
finish_session_clear_late(c, wait_for_confirmation, o) ==
    IF c.session_id = NoSession
    THEN Result(c, NoSession, FALSE, 0)
    ELSE IF SendRaises(c, o)
    THEN Result([c EXCEPT !.ws = IF c.ws = "none" THEN "none" ELSE "dead"],
                NoSession, TRUE, 0)
    ELSE Result([c EXCEPT !.session_id = NoSession, !.acked = FALSE], NoSession, FALSE, 1)

finish_session(c, wait_for_confirmation, o) ==
    IF c.session_id = NoSession
    THEN Result(c, NoSession, FALSE, 0)
    ELSE LET c1 == [c EXCEPT !.session_id = NoSession, !.acked = FALSE]
         IN IF SendRaises(c1, o)
            THEN Result([c1 EXCEPT !.ws = IF c.ws = "none" THEN "none" ELSE "dead"],
                        NoSession, TRUE, 0)
            ELSE IF wait_for_confirmation /\ o = "recv_raises"
            THEN Result([c1 EXCEPT !.ws = "dead"], NoSession, FALSE, 1)
            ELSE Result(c1, NoSession, FALSE, 1)

send_audio(c, o) ==
    IF c.session_id = NoSession
    THEN Result(c, NoSession, FALSE, 0)
    ELSE IF SendRaises(c, o)
    THEN Result([c EXCEPT !.ws = IF c.ws = "none" THEN "none" ELSE "dead"],
                NoSession, TRUE, 0)
    ELSE Result(c, NoSession, FALSE, 1)

\* a close() whose send of the connection-finish frame is not guarded
close_unguarded(c) ==
    IF c.ws = "none"
    THEN Result(c, NoSession, FALSE, 0)
    ELSE IF c.ws = "dead"
    THEN Result(c, NoSession, TRUE, 0)
    ELSE Result([c EXCEPT !.ws = "none", !.connected = FALSE], NoSession, FALSE, 1)

close(c) ==
    IF c.ws = "none"
    THEN Result(c, NoSession, FALSE, 0)
    ELSE Result([c EXCEPT !.ws = "none", !.connected = FALSE], NoSession, FALSE,
                IF c.ws = "open" THEN 1 ELSE 0)

\* what the channel does during receive(): nothing within the timeout, closure, or a frame
ServerEvents == {"ASR_INFO", "ASR_RESPONSE", "ASR_ENDED", "TTS_SENTENCE_START",
                 "TTS_RESPONSE", "TTS_ENDED", "CHAT_RESPONSE", "SESSION_FAILED",
                 "DIALOG_COMMON_ERROR", "OTHER"}
ReceiveOutcomes == {"timeout", "closed"} \cup ServerEvents

\* a receive() that returns None on closure and leaves the flag alone
receive_keeps_connected(c, o) ==
    IF c.ws = "none" \/ c.ws = "dead" \/ o \in {"closed", "timeout"}
    THEN Result([c EXCEPT !.ws = IF c.ws = "none" THEN "none"
                                 ELSE IF o = "closed" THEN "dead" ELSE c.ws],
                "none", FALSE, 0)
    ELSE Result(c, o, FALSE, 0)

\* ret is "none" or the event of the parsed frame
receive(c, o) ==
    IF c.ws = "none"
    THEN Result(c, "none", FALSE, 0)
    ELSE IF c.ws = "dead" \/ o = "closed"
    THEN Result([c EXCEPT !.ws = "dead", !.connected = FALSE], "none", FALSE, 0)
    ELSE IF o = "timeout"
    THEN Result(c, "none", FALSE, 0)
    ELSE Result(c, o, FALSE, 0)

-----------------------------------------------------------------------------
(* voice_websocket: the server messages *)

StatusIdle       == "status:idle"
StatusListening  == "status:listening"
StatusProcessing == "status:processing"
StatusSpeaking   == "status:speaking"
ErrorEvent       == "error"
Statuses == {StatusIdle, StatusListening, StatusProcessing, StatusSpeaking}

\* websocket.close(code=status.WS_1008_POLICY_VIOLATION) and websocket.close()
PolicyViolation == "close:1008"
NormalClosure   == "close:1000"

\* the status the browser saw last, after the events o
LastStatus(st, o) ==
    LET idx == {i \in 1..Len(o) : o[i] \in Statuses}
    IN IF idx = {} THEN st ELSE o[CHOOSE i \in idx : \A j \in idx : j <= i]

\* a start or interrupt that leaves the running receive task alone
cancel_receive_task_skipped(t) == [rt |-> t.rt, live |-> t.live, cancelled |-> FALSE]

\* receive_task.cancel() followed by await receive_task, when a task is running
cancel_receive_task(t) ==
    IF t.rt = "live"
    THEN [rt |-> "cancelled", live |-> t.live - 1, cancelled |-> TRUE]
    ELSE [rt |-> t.rt, live |-> t.live, cancelled |-> FALSE]

\* asyncio.create_task(handle_doubao_events())
create_receive_task(t) == [rt |-> "live", live |-> t.live + 1, cancelled |-> t.cancelled]

Task == [rt |-> receive_task, live |-> liveTasks, cancelled |-> FALSE]

\* fault: the step met an upstream failure (a channel operation raised, or the
\* upstream answered with something other than the confirmation awaited)
Step(op, raised, cancelled, created) ==
    [op |-> op, raised |-> raised, cancelled |-> cancelled, created |-> created,
     fault |-> raised]

\* the upstream failed during the client calls r2 (finish_session) and r3 (start_session)
UpstreamFault(r2, ofin, r3, ost) ==
    \/ r2.raised
    \/ r2.sent = 1 /\ ofin # "finished"
    \/ r3.raised
    \/ r3.sent = 1 /\ ost # "ack"

\* the upstream turn survives a step only with the session it belongs to
TurnAfter(c, turn) ==
    IF c.acked /\ c.session_id = session_id /\ c.ws = "open" THEN turn ELSE "idle"

\* The idle timer.  Time is counted in sleeps of check_session_timeout (30 s);
\* IdleTimeout is session_timeout in the same unit.
MaxLoopTime == 3
IdleTimeout == 1

\* receive_json returned a message: one ClientMessage rejects leaves the loop at
\* the continue of line 425, every other reaches line 427
MessageArrived(op) ==
    /\ last_inbound' = loop_time
    /\ last_activity_time' = IF op = "invalid" THEN last_activity_time ELSE loop_time

\* one iteration of the message loop ends: the state the handler leaves
ContinueWith(op, c, listening, t, o, created, fault, turn) ==
    /\ SetClient(c)
    /\ is_listening' = listening
    /\ receive_task' = t.rt
    /\ liveTasks' = t.live
    /\ out' = o
    /\ status' = LastStatus(status, o)
    /\ last' = [Step(op, FALSE, t.cancelled, created) EXCEPT !.fault = fault]
    /\ upTurn' = turn
    /\ MessageArrived(op)
    /\ UNCHANGED <<conn, interrupt_enabled, current_asr_text, knowledges, loop_time,
                   timeout_task>>
    /\ UNCHANGED notGateway

Continue(op, c, listening, t, o, created, fault) ==
    ContinueWith(op, c, listening, t, o, created, fault, TurnAfter(c, upTurn))

\* the same after the loop finished the session or started one: a session with a
\* new id carries no turn of the old one
Restart(op, c, listening, t, o, created, fault) ==
    ContinueWith(op, c, listening, t, o, created, fault, "idle")

\* the finally block: both tasks cancelled, the client closed; receive_json raised
\* (the browser left, or the socket was closed under it) or a message's handling did
Cleanup(op, c, listening, t, o, raised) ==
    /\ SetClient(close(c).c)
    /\ is_listening' = listening
    /\ receive_task' = IF t.rt = "live" THEN "cancelled" ELSE t.rt
    /\ liveTasks' = IF t.rt = "live" THEN t.live - 1 ELSE t.live
    /\ out' = o
    /\ status' = LastStatus(status, o)
    /\ last' = Step(op, raised, t.cancelled, FALSE)
    /\ conn' = "closed"
    /\ upTurn' = "idle"
    /\ IF op \in {"disconnect", "timeout_exit"}
       THEN UNCHANGED <<last_inbound, last_activity_time>>
       ELSE MessageArrived(op)
    /\ timeout_task' = IF timeout_task \in {"sleeping", "woken"} THEN "cancelled"
                       ELSE timeout_task
    /\ UNCHANGED <<interrupt_enabled, current_asr_text, knowledges, loop_time>>
    /\ UNCHANGED notGateway

\* an exception reaches the loop's except clause: one error event, then the finally block
Crash(op, c, listening, t) == Cleanup(op, c, listening, t, <<ErrorEvent>>, TRUE)

-----------------------------------------------------------------------------
(* voice_websocket: the message loop *)

\* {"type": "audio", ...}: forwarded while the client is connected and holds a session id
ClientAudio(has_data, o) ==
    /\ conn = "open"
    /\ LET c == Client
           forward == has_data /\ is_connected(c) /\ c.session_id # NoSession
           r == IF forward THEN send_audio(c, o) ELSE Result(c, NoSession, FALSE, 0)
       IN /\ SetClient(r.c)
          /\ upTurn' = IF r.sent = 1 /\ c.acked /\ upTurn = "idle" THEN "audio"
                       ELSE TurnAfter(r.c, upTurn)
          /\ out' = <<>>
          /\ last' = Step(IF r.sent = 1 THEN "audio_forwarded" ELSE "audio",
                           FALSE, FALSE, FALSE)
          /\ MessageArrived("audio")
          /\ UNCHANGED <<interrupt_enabled, is_listening, receive_task, liveTasks, conn,
                         status, current_asr_text, knowledges, loop_time, timeout_task>>
          /\ UNCHANGED notGateway

\* control start, a session already running: reused, the receive task restarted if it ended
StartReuse(c) ==
    LET t == IF receive_task \in {"none", "done", "cancelled"}
             THEN create_receive_task(Task) ELSE Task
    IN Continue("start", c, TRUE, t, <<StatusListening>>, t.rt = "live" /\ receive_task # "live",
                FALSE)

\* control start otherwise: cancel the receive task, connect, finish the old session, start one
StartFresh(c, oc, ofin, ost) ==
    LET t  == cancel_receive_task(Task)
        r1 == IF is_connected(c) THEN Result(c, TRUE, FALSE, 0) ELSE connect(c, oc)
        r2 == finish_session(r1.c, TRUE, ofin)
        r3 == start_session(r2.c, ost)
    IN IF ~r1.ret
       THEN Restart("start", r1.c, is_listening, t, <<ErrorEvent>>, FALSE, TRUE)
       ELSE IF r2.raised
       THEN Crash("start", r2.c, is_listening, t)
       ELSE IF r3.raised
       THEN Crash("start", r3.c, is_listening, t)
       ELSE IF r3.ret = NoSession
       THEN Restart("start", r3.c, is_listening, t, <<ErrorEvent>>, FALSE,
                    UpstreamFault(r2, ofin, r3, ost))
       ELSE Restart("start", r3.c, TRUE, create_receive_task(t), <<StatusListening>>, TRUE,
                    UpstreamFault(r2, ofin, r3, ost))

ControlStart(oc, ofin, ost) ==
    /\ conn = "open"
    /\ ~is_connected(Client) => connect(Client, oc).c.orphans <= MaxOrphans
    /\ IF is_connected(Client) /\ session_id # NoSession
       THEN StartReuse(Client)
       ELSE StartFresh(Client, oc, ofin, ost)

ControlStop ==
    /\ conn = "open"
    /\ Continue("stop", Client, FALSE, Task, <<>>, FALSE, FALSE)

\* control interrupt: cancel the receive task, finish the session, start a new one
Interrupt(c, ofin, ost) ==
    LET t  == cancel_receive_task(Task)
        r2 == finish_session(c, TRUE, ofin)
        r3 == start_session(r2.c, ost)
    IN IF r2.raised
       THEN Crash("interrupt", r2.c, is_listening, t)
       ELSE IF r3.raised
       THEN Crash("interrupt", r3.c, is_listening, t)
       ELSE IF r3.ret # NoSession
       THEN Restart("interrupt", r3.c, TRUE, create_receive_task(t), <<StatusListening>>, TRUE,
                    UpstreamFault(r2, ofin, r3, ost))
       ELSE Restart("interrupt", r3.c, FALSE, t, <<ErrorEvent>>, FALSE,
                    UpstreamFault(r2, ofin, r3, ost))

ControlInterrupt(ofin, ost) ==
    /\ conn = "open"
    /\ IF interrupt_enabled
       THEN Interrupt(Client, ofin, ost)
       ELSE Continue("interrupt", Client, is_listening, Task, <<>>, FALSE, FALSE)

\* a message ClientMessage rejects (no "type", or a field of the wrong type)
ClientInvalid ==
    /\ conn = "open"
    /\ Continue("invalid", Client, is_listening, Task, <<ErrorEvent>>, FALSE, FALSE)

\* a message ClientMessage accepts whose type or action no branch handles
ClientUnknown ==
    /\ conn = "open"
    /\ Continue("unknown", Client, is_listening, Task, <<>>, FALSE, FALSE)

\* receive_json raises WebSocketDisconnect
ClientDisconnect ==
    /\ conn = "open"
    /\ Cleanup("disconnect", Client, is_listening, Task, <<>>, FALSE)

-----------------------------------------------------------------------------
(* handle_doubao_events: one iteration of the receive task's loop *)

TaskRuns == conn = "open" /\ receive_task = "live" /\ is_connected(Client)

\* the frames the upstream sends at this point of its turn
UpstreamSends(ev) ==
    CASE ev = "ASR_INFO" -> upTurn = "audio"
      [] ev \in {"ASR_RESPONSE", "ASR_ENDED"} -> upTurn = "asr"
      [] ev \in {"TTS_SENTENCE_START", "TTS_RESPONSE", "CHAT_RESPONSE", "TTS_ENDED"} ->
             upTurn = "reply"
      [] OTHER -> TRUE

\* receive() returned the frame ev and its case of the match statement ran
Handled(ev, c, o, asr, turn) ==
    /\ TaskRuns
    /\ UpstreamSends(ev)
    /\ receive(Client, ev).ret = ev
    /\ SetClient(c)
    /\ out' = o
    /\ status' = LastStatus(status, o)
    /\ current_asr_text' = asr
    /\ upTurn' = IF c.ws = "open" THEN turn ELSE "idle"
    /\ last' = Step(ev, FALSE, FALSE, FALSE)
    /\ UNCHANGED <<interrupt_enabled, is_listening, receive_task, liveTasks, conn, knowledges>>
    /\ UNCHANGED idleVars
    /\ UNCHANGED notGateway

TaskAsrInfo ==
    Handled("ASR_INFO", Client, IF interrupt_enabled THEN <<StatusListening>> ELSE <<>>,
            FALSE, "asr")

\* one result of the payload, with or without text, interim or final
TaskAsrResponse(has_text, is_interim) ==
    Handled("ASR_RESPONSE", Client,
            IF ~has_text THEN <<>>
            ELSE IF is_interim THEN <<"transcription:interim">>
            ELSE <<"transcription:final">>,
            IF has_text /\ ~is_interim THEN TRUE ELSE current_asr_text, "asr")

\* do_rag_retrieval: nothing found, or send_rag_text, whose exception is logged
do_rag_retrieval(c, rag) ==
    IF rag = "no_results" \/ c.session_id = NoSession THEN c
    ELSE IF SendRaises(c, rag) THEN [c EXCEPT !.ws = "dead"]
    ELSE c

TaskAsrEnded(rag) ==
    Handled("ASR_ENDED",
            IF knowledges /\ current_asr_text THEN do_rag_retrieval(Client, rag) ELSE Client,
            <<StatusProcessing>>, current_asr_text, "reply")

TaskTtsSentenceStart(has_text) ==
    Handled("TTS_SENTENCE_START", Client,
            (IF has_text THEN <<"response">> ELSE <<>>) \o <<StatusSpeaking>>,
            current_asr_text, "reply")

TaskTtsResponse(has_audio) ==
    Handled("TTS_RESPONSE", Client, IF has_audio THEN <<"audio">> ELSE <<>>,
            current_asr_text, "reply")

\* a TTS_ENDED case that reports idle whether or not the connection is listening
TaskTtsEnded_always_idle ==
    Handled("TTS_ENDED", Client, <<"audio_end", "response_end", StatusIdle>>,
            current_asr_text, "idle")

TaskTtsEnded ==
    Handled("TTS_ENDED", Client,
            <<"audio_end", "response_end",
              IF ~is_listening THEN StatusIdle ELSE StatusListening>>,
            current_asr_text, "idle")

TaskChatResponse(has_content) ==
    Handled("CHAT_RESPONSE", Client, IF has_content THEN <<"response">> ELSE <<>>,
            current_asr_text, "reply")

TaskError(ev) ==
    /\ ev \in {"SESSION_FAILED", "DIALOG_COMMON_ERROR"}
    /\ Handled(ev, Client, <<ErrorEvent>>, current_asr_text, upTurn)

\* receive() timed out, or the frame matches no case
TaskIgnored(o) ==
    /\ o \in {"timeout", "OTHER"}
    /\ TaskRuns
    /\ ws = "open"
    /\ out' = <<>>
    /\ last' = Step(o, FALSE, FALSE, FALSE)
    /\ UNCHANGED <<clientVars, interrupt_enabled, is_listening, receive_task, liveTasks,
                   conn, status, current_asr_text, knowledges, upTurn>>
    /\ UNCHANGED idleVars
    /\ UNCHANGED notGateway

\* receive() met ConnectionClosed: connected is cleared and the loop ends
TaskClosed ==
    /\ TaskRuns
    /\ LET r == receive(Client, "closed")
       IN /\ SetClient(r.c)
          /\ receive_task' = IF is_connected(r.c) THEN receive_task ELSE "done"
          /\ liveTasks' = IF is_connected(r.c) THEN liveTasks ELSE liveTasks - 1
    /\ out' = <<>>
    /\ upTurn' = "idle"
    /\ last' = Step("closed", FALSE, FALSE, FALSE)
    /\ UNCHANGED <<interrupt_enabled, is_listening, conn, status, current_asr_text, knowledges>>
    /\ UNCHANGED idleVars
    /\ UNCHANGED notGateway

-----------------------------------------------------------------------------
(* check_session_timeout *)

\* 30 seconds pass: a sleep of the timeout task ends
LoopTimePasses ==
    /\ loop_time < MaxLoopTime
    /\ timeout_task # "woken"
    /\ loop_time' = loop_time + 1
    /\ timeout_task' = IF timeout_task = "sleeping" THEN "woken" ELSE timeout_task
    /\ out' = <<>>
    /\ last' = Step("sleep", FALSE, FALSE, FALSE)
    /\ UNCHANGED <<clientVars, interrupt_enabled, is_listening, receive_task, liveTasks,
                   conn, status, current_asr_text, knowledges, upTurn, last_activity_time,
                   last_inbound>>
    /\ UNCHANGED notGateway

\* line 287
check_session_timeout(t, activity) == t - activity > IdleTimeout

\* the task wakes: an idle connection gets an error event and is closed, and the
\* task ends; otherwise it sleeps again
CheckSessionTimeout ==
    /\ timeout_task = "woken"
    /\ conn = "open"
    /\ LET expired == check_session_timeout(loop_time, last_activity_time)
       IN /\ timeout_task' = IF expired THEN "done" ELSE "sleeping"
          /\ conn' = IF expired THEN "timed_out" ELSE conn
          /\ out' = IF expired THEN <<ErrorEvent, NormalClosure>> ELSE <<>>
          /\ last' = Step(IF expired THEN "timeout" ELSE "check", FALSE, FALSE, FALSE)
    /\ UNCHANGED <<clientVars, interrupt_enabled, is_listening, receive_task, liveTasks,
                   status, current_asr_text, knowledges, upTurn, loop_time,
                   last_activity_time, last_inbound>>
    /\ UNCHANGED notGateway

\* the socket was closed under the message loop: receive_json raises and the
\* finally block runs
TimeoutExit ==
    /\ conn = "timed_out"
    /\ Cleanup("timeout_exit", Client, is_listening, Task, <<>>, FALSE)

-----------------------------------------------------------------------------
(* The gateway specification *)

InitGateway ==
    /\ SetClient0
    /\ interrupt_enabled \in BOOLEAN
    /\ knowledges \in BOOLEAN
    /\ is_listening = FALSE
    /\ receive_task = "none"
    /\ liveTasks = 0
    /\ conn = "open"
    /\ status = StatusIdle
    /\ out = <<StatusIdle>>
    /\ last = Step("accept", FALSE, FALSE, FALSE)
    /\ current_asr_text = FALSE
    /\ upTurn = "idle"
    /\ loop_time = 0
    /\ last_activity_time = 0
    /\ last_inbound = 0
    /\ timeout_task = "sleeping"

\* the handler returns before the message loop: the browser gets the events o
Rejected(o) ==
    /\ conn' = "closed"
    /\ out' = o
    /\ last' = Step("reject", FALSE, FALSE, FALSE)
    /\ UNCHANGED <<clientVars, interrupt_enabled, is_listening, receive_task, liveTasks,
                   status, current_asr_text, knowledges, upTurn>>
    /\ UNCHANGED idleVars
    /\ UNCHANGED notGateway

\* voice_websocket up to the message loop: the token ("invalid": validate_token
\* returns None, "no_sub": it has no user), the agent, the DOUBAO_* variables, then
\* the configuration loaded for the connection
Accept(token, agent_exists, credentials, enabled, kbs) ==
    /\ conn = "connecting"
    /\ IF token # "valid" \/ ~agent_exists
       THEN Rejected(<<PolicyViolation>>)
       ELSE IF ~credentials
       THEN Rejected(<<ErrorEvent, NormalClosure>>)
       ELSE /\ conn' = "open"
            /\ interrupt_enabled' = enabled
            /\ knowledges' = kbs
            /\ is_listening' = FALSE
            /\ receive_task' = "none"
            /\ out' = <<StatusIdle>>
            /\ status' = StatusIdle
            /\ last' = Step("accept", FALSE, FALSE, FALSE)
            /\ current_asr_text' = FALSE
            /\ last_activity_time' = loop_time
            /\ timeout_task' = "sleeping"
            /\ UNCHANGED <<clientVars, liveTasks, upTurn, loop_time, last_inbound>>
            /\ UNCHANGED notGateway

\* a connection request has arrived and the handler has not run yet
InitAccept ==
    /\ SetClient0
    /\ interrupt_enabled = TRUE
    /\ knowledges = FALSE
    /\ is_listening = FALSE
    /\ receive_task = "none"
    /\ liveTasks = 0
    /\ conn = "connecting"
    /\ status = "none"
    /\ out = <<>>
    /\ last = Step("request", FALSE, FALSE, FALSE)
    /\ current_asr_text = FALSE
    /\ upTurn = "idle"
    /\ loop_time = 0
    /\ last_activity_time = 0
    /\ last_inbound = 0
    /\ timeout_task = "none"

NextGateway ==
    \/ \E has_data \in BOOLEAN, o \in {"ok", "send_raises"} : ClientAudio(has_data, o)
    \/ \E oc \in ConnectOutcomes, ofin \in FinishOutcomes, ost \in StartOutcomes :
           ControlStart(oc, ofin, ost)
    \/ ControlStop
    \/ \E ofin \in FinishOutcomes, ost \in StartOutcomes : ControlInterrupt(ofin, ost)
    \/ ClientInvalid
    \/ ClientUnknown
    \/ ClientDisconnect
    \/ TaskAsrInfo
    \/ \E has_text \in BOOLEAN, is_interim \in BOOLEAN : TaskAsrResponse(has_text, is_interim)
    \/ \E rag \in {"no_results", "sent", "send_raises"} : TaskAsrEnded(rag)
    \/ \E has_text \in BOOLEAN : TaskTtsSentenceStart(has_text)
    \/ \E has_audio \in BOOLEAN : TaskTtsResponse(has_audio)
    \/ TaskTtsEnded
    \/ \E has_content \in BOOLEAN : TaskChatResponse(has_content)
    \/ \E ev \in {"SESSION_FAILED", "DIALOG_COMMON_ERROR"} : TaskError(ev)
    \/ \E o \in {"timeout", "OTHER"} : TaskIgnored(o)
    \/ TaskClosed

-----------------------------------------------------------------------------
(* InterruptHandler *)

\* the synthesis tasks one response schedules
MaxTasks == 3
TaskIds == 1..MaxTasks

SeqToSet(q) == {q[i] : i \in 1..Len(q)}

IhCall(op, ret, before) == [op |-> op, ret |-> ret, before |-> before]

InitInterrupt ==
    /\ is_tts_playing = FALSE
    /\ pending_tasks = <<>>
    /\ interrupt_event = FALSE
    /\ task_state = [t \in TaskIds |-> "absent"]
    /\ delivered = {}
    /\ ih_last = IhCall("init", FALSE, {})

\* set_tts_playing(playing)
set_tts_playing(playing) ==
    /\ is_tts_playing' = playing
    /\ interrupt_event' = IF ~playing THEN FALSE ELSE interrupt_event
    /\ ih_last' = IhCall("set_tts_playing", playing, {})
    /\ UNCHANGED <<pending_tasks, task_state, delivered>>
    /\ UNCHANGED notInterrupt

\* check_interrupt(speech_detected), with config.enabled
check_interrupt(enabled, speech_detected) ==
    /\ ih_last' = IhCall("check_interrupt",
                         IF ~enabled THEN FALSE
                         ELSE IF ~is_tts_playing THEN FALSE
                         ELSE speech_detected, {})
    /\ UNCHANGED <<is_tts_playing, pending_tasks, interrupt_event, task_state, delivered>>
    /\ UNCHANGED notInterrupt

\* task.cancel(): a task that has not started never runs; a running one is asked to stop
cancel_task(st) ==
    IF st = "scheduled" THEN "cancelled"
    ELSE IF st = "running" THEN "cancelling"
    ELSE st

\* the loop of handle_interrupt over self._pending_tasks
cancel_pending(ts, pend) ==
    [t \in TaskIds |-> IF t \in SeqToSet(pend) /\ ts[t] \notin {"done", "cancelled"}
                       THEN cancel_task(ts[t]) ELSE ts[t]]

handle_interrupt ==
    /\ IF ~is_tts_playing
       THEN /\ ih_last' = IhCall("handle_interrupt", FALSE, SeqToSet(pending_tasks))
            /\ UNCHANGED <<is_tts_playing, pending_tasks, interrupt_event, task_state>>
       ELSE /\ interrupt_event' = TRUE
            /\ task_state' = cancel_pending(task_state, pending_tasks)
            /\ pending_tasks' = <<>>
            /\ is_tts_playing' = FALSE
            /\ ih_last' = IhCall("handle_interrupt", TRUE, SeqToSet(pending_tasks))
    /\ UNCHANGED delivered
    /\ UNCHANGED notInterrupt

\* the caller creates the next unit's task and registers it: add_pending_task(task)
add_pending_task(t) ==
    /\ task_state[t] = "absent"
    /\ \A u \in TaskIds : u < t => task_state[u] # "absent"
    /\ task_state' = [task_state EXCEPT ![t] = "scheduled"]
    /\ pending_tasks' = Append(pending_tasks, t)
    /\ ih_last' = IhCall("add_pending_task", FALSE, {})
    /\ UNCHANGED <<is_tts_playing, interrupt_event, delivered>>
    /\ UNCHANGED notInterrupt

clear_pending_tasks ==
    /\ pending_tasks' = <<>>
    /\ ih_last' = IhCall("clear_pending_tasks", FALSE, {})
    /\ UNCHANGED <<is_tts_playing, interrupt_event, task_state, delivered>>
    /\ UNCHANGED notInterrupt

is_interrupted ==
    /\ ih_last' = IhCall("is_interrupted", interrupt_event, {})
    /\ UNCHANGED <<is_tts_playing, pending_tasks, interrupt_event, task_state, delivered>>
    /\ UNCHANGED notInterrupt

\* the event loop runs a scheduled task
TaskStarts(t) ==
    /\ task_state[t] = "scheduled"
    /\ task_state' = [task_state EXCEPT ![t] = "running"]
    /\ ih_last' = IhCall("task", FALSE, {})
    /\ UNCHANGED <<is_tts_playing, pending_tasks, interrupt_event, delivered>>
    /\ UNCHANGED notInterrupt

\* a task ends and its unit's audio is delivered; a task asked to stop while it ran
\* may still end this way (cancellation is cooperative)
TaskDelivers(t) ==
    /\ task_state[t] \in {"running", "cancelling"}
    /\ task_state' = [task_state EXCEPT ![t] = "done"]
    /\ delivered' = delivered \cup {t}
    /\ ih_last' = IhCall("task", FALSE, {})
    /\ UNCHANGED <<is_tts_playing, pending_tasks, interrupt_event>>
    /\ UNCHANGED notInterrupt

\* CancelledError reaches a running task at its await
TaskCancelled(t) ==
    /\ task_state[t] = "cancelling"
    /\ task_state' = [task_state EXCEPT ![t] = "cancelled"]
    /\ ih_last' = IhCall("task", FALSE, {})
    /\ UNCHANGED <<is_tts_playing, pending_tasks, interrupt_event, delivered>>
    /\ UNCHANGED notInterrupt

NextInterrupt ==
    \/ \E playing \in BOOLEAN : set_tts_playing(playing)
    \/ \E enabled \in BOOLEAN, speech_detected \in BOOLEAN :
           check_interrupt(enabled, speech_detected)
    \/ handle_interrupt
    \/ \E t \in TaskIds : add_pending_task(t)
    \/ clear_pending_tasks
    \/ is_interrupted
    \/ \E t \in TaskIds : TaskStarts(t)
    \/ \E t \in TaskIds : TaskDelivers(t)
    \/ \E t \in TaskIds : TaskCancelled(t)

-----------------------------------------------------------------------------
(* EdgeTTSService.synthesize_stream and OpenAITTSService.synthesize_stream *)

\* text is a sequence of characters; "NL" is the line feed, "CJK_STOP", "CJK_EXCL"
\* and "CJK_QUES" the full-width full stop, exclamation mark and question mark
sentence_endings == {"CJK_STOP", "CJK_EXCL", "CJK_QUES", ".", "!", "?", "NL"}
Whitespace == {" ", "NL"}

\* the fragments a text stream is made of
LongWord == [i \in 1..41 |-> "a"]
Fragments == {<<>>, <<"a">>, <<"a", ".">>, <<" ", "?">>, <<"CJK_STOP", "b">>,
              <<"a", "!", "NL", " ">>, LongWord}
\* the fragments of one stream
MaxFrags == 3
\* the audio chunks the synthesis of one unit yields
MaxAudioChunks == 2

Streams == UNION {[1..n -> Fragments] : n \in 0..MaxFrags}

\* "".join(chunks)
RECURSIVE Join(_)
Join(chunks) == IF chunks = <<>> THEN <<>> ELSE Head(chunks) \o Join(Tail(chunks))

\* str.strip()
strip(s) ==
    LET keep == {i \in 1..Len(s) : s[i] \notin Whitespace}
    IN IF keep = {} THEN <<>>
       ELSE SubSeq(s, CHOOSE i \in keep : \A j \in keep : i <= j,
                      CHOOSE i \in keep : \A j \in keep : j <= i)

\* a scan that stops at the last sentence ending of the buffer
end_pos_last(buf) ==
    LET ends == {i \in 1..Len(buf) : buf[i] \in sentence_endings}
    IN IF ends = {} THEN 0 ELSE CHOOSE i \in ends : \A j \in ends : j <= i

\* the for loop over enumerate(text_buffer): the first sentence ending, 0 for none
end_pos(buf) ==
    LET ends == {i \in 1..Len(buf) : buf[i] \in sentence_endings}
    IN IF ends = {} THEN 0 ELSE CHOOSE i \in ends : \A j \in ends : i <= j

Unit(pos, text, final) == [pos |-> pos, text |-> text, final |-> final, chunks |-> 0]

\* a piece taken from the buffer and the sentence made of it
Cut(raw, sentence, final) == [raw |-> raw, unit |-> sentence, final |-> final]

InitTTS ==
    /\ text_chunks \in Streams
    /\ text_buffer = <<>>
    /\ tts_pc = "read"
    /\ inflight = {}
    /\ emitted = <<>>
    /\ consumed = 0
    /\ source = Join(text_chunks)
    /\ cuts = <<>>

\* async for chunk in text_chunks: text_buffer += chunk
ReadChunk ==
    /\ tts_pc = "read"
    /\ text_chunks # <<>>
    /\ text_buffer' = text_buffer \o Head(text_chunks)
    /\ text_chunks' = Tail(text_chunks)
    /\ tts_pc' = "scan"
    /\ UNCHANGED <<inflight, emitted, consumed>>
    /\ UNCHANGED ttsHist
    /\ UNCHANGED notTTS

\* the text stream is exhausted
EndOfText ==
    /\ tts_pc = "read"
    /\ text_chunks = <<>>
    /\ tts_pc' = "final"
    /\ UNCHANGED <<text_chunks, text_buffer, inflight, emitted, consumed>>
    /\ UNCHANGED ttsHist
    /\ UNCHANGED notTTS

\* a generator that goes on cutting sentences while a unit's audio is still streaming
pc_after_start_detached(final) == IF final THEN "synth" ELSE "scan"

\* the generator drains the unit's audio stream before it goes on
pc_after_start(final) == "synth"

\* one pass of the while loop: no ending (back to reading), or a sentence is cut
\* and, unless blank, its synthesis starts
ScanBuffer ==
    /\ tts_pc = "scan"
    /\ LET e == end_pos(text_buffer)
           sentence == strip(SubSeq(text_buffer, 1, e))
       IN IF e = 0
          THEN /\ tts_pc' = "read"
               /\ UNCHANGED <<text_buffer, inflight, consumed, cuts>>
          ELSE /\ text_buffer' = SubSeq(text_buffer, e + 1, Len(text_buffer))
               /\ consumed' = consumed + e
               /\ cuts' = Append(cuts, Cut(SubSeq(text_buffer, 1, e), sentence, FALSE))
               /\ IF sentence # <<>>
                  THEN /\ inflight' = inflight \cup {Unit(consumed, sentence, FALSE)}
                       /\ tts_pc' = pc_after_start(FALSE)
                  ELSE UNCHANGED <<inflight, tts_pc>>
    /\ UNCHANGED <<text_chunks, emitted, source>>
    /\ UNCHANGED notTTS

\* after the stream: the rest of the buffer, unless blank, is the last unit
FlushBuffer ==
    /\ tts_pc = "final"
    /\ IF strip(text_buffer) # <<>>
       THEN /\ inflight' = inflight \cup {Unit(consumed, strip(text_buffer), TRUE)}
            /\ tts_pc' = pc_after_start(TRUE)
       ELSE /\ tts_pc' = "done"
            /\ UNCHANGED inflight
    /\ cuts' = Append(cuts, Cut(text_buffer, strip(text_buffer), TRUE))
    /\ UNCHANGED <<text_chunks, text_buffer, emitted, consumed, source>>
    /\ UNCHANGED notTTS

\* the unit's audio stream yields an audio chunk, which the generator yields on
YieldAudio(u) ==
    /\ u \in inflight
    /\ tts_pc \notin {"done", "raised"}
    /\ u.chunks < MaxAudioChunks
    /\ emitted' = Append(emitted, u.pos)
    /\ inflight' = (inflight \ {u}) \cup {[u EXCEPT !.chunks = u.chunks + 1]}
    /\ UNCHANGED <<text_chunks, text_buffer, tts_pc, consumed>>
    /\ UNCHANGED ttsHist
    /\ UNCHANGED notTTS

\* the unit's audio stream ends
SynthesisEnds(u) ==
    /\ u \in inflight
    /\ tts_pc \notin {"done", "raised"}
    /\ inflight' = inflight \ {u}
    /\ tts_pc' = IF tts_pc # "synth" THEN tts_pc
                 ELSE IF u.final THEN "done" ELSE "scan"
    /\ UNCHANGED <<text_chunks, text_buffer, emitted, consumed>>
    /\ UNCHANGED ttsHist
    /\ UNCHANGED notTTS

\* the unit's synthesis raises: except Exception wraps it in TTSError and re-raises
SynthesisFails(u) ==
    /\ u \in inflight
    /\ tts_pc \notin {"done", "raised"}
    /\ inflight' = inflight \ {u}
    /\ tts_pc' = "raised"
    /\ UNCHANGED <<text_chunks, text_buffer, emitted, consumed>>
    /\ UNCHANGED ttsHist
    /\ UNCHANGED notTTS

NextTTS ==
    \/ ReadChunk
    \/ EndOfText
    \/ ScanBuffer
    \/ FlushBuffer
    \/ \E u \in inflight : YieldAudio(u)
    \/ \E u \in inflight : SynthesisEnds(u)
    \/ \E u \in inflight : SynthesisFails(u)

-----------------------------------------------------------------------------
(* The frame codec: _build_header, _build_event_frame, _build_audio_frame,   *)
(* _parse_response.  Bytes are numbers 0..255, a str is a sequence of code  *)
(* points, and an optional value is <<>> (None, or a key the dict lacks) or *)
(* <<v>>.                                                                   *)

None == <<>>
Some(v) == <<v>>

START_CONNECTION  == 1
FINISH_CONNECTION == 2
START_SESSION     == 100
FINISH_SESSION    == 102
TASK_REQUEST      == 200
CHAT_RAG_TEXT     == 502

FULL_CLIENT_REQUEST == 1
AUDIO_ONLY_REQUEST  == 2
AUDIO_ONLY_RESPONSE == 11

\* struct.pack(">I", n) and struct.unpack(">I", b)[0]
Pack32(n) == <<(n \div 16777216) % 256, (n \div 65536) % 256, (n \div 256) % 256, n % 256>>
Unpack32(b) == ((b[1] * 256 + b[2]) * 256 + b[3]) * 256 + b[4]

\* data[a:b]
Slice(data, a, b) == SubSeq(data, a + 1, b)

\* str.encode("utf-8"), for code points below 2048
RECURSIVE Utf8Encode(_)
Utf8Encode(str) ==
    IF str = <<>> THEN <<>>
    ELSE (IF Head(str) < 128 THEN <<Head(str)>>
          ELSE <<192 + (Head(str) \div 64), 128 + (Head(str) % 64)>>) \o Utf8Encode(Tail(str))

\* bytes.decode("utf-8"), for code points below 2048: Some(str), or None for
\* UnicodeDecodeError
RECURSIVE Utf8Decode(_)
Utf8Decode(b) ==
    IF b = <<>> THEN Some(<<>>)
    ELSE IF b[1] < 128
    THEN LET rest == Utf8Decode(Tail(b))
         IN IF rest = None THEN None ELSE Some(<<b[1]>> \o rest[1])
    ELSE IF b[1] >= 194 /\ b[1] <= 223 /\ Len(b) >= 2 /\ b[2] >= 128 /\ b[2] <= 191
    THEN LET rest == Utf8Decode(Tail(Tail(b)))
         IN IF rest = None THEN None
            ELSE Some(<<(b[1] - 192) * 64 + (b[2] - 128)>> \o rest[1])
    ELSE None

\* bytes.hex(): two hexadecimal digits per byte, as code points
HexDigit(n) == IF n < 10 THEN 48 + n ELSE 87 + n
RECURSIVE Hex(_)
Hex(b) == IF b = <<>> THEN <<>>
          ELSE <<HexDigit(b[1] \div 16), HexDigit(b[1] % 16)>> \o Hex(Tail(b))

\* the JSON payloads a frame carries: the empty dict, and {"a": 1}
Payloads == {"EmptyDict", "DictA"}
\* json.dumps(payload, ensure_ascii=False).encode("utf-8")
JsonDumps(p) == IF p = "EmptyDict" THEN <<123, 125>>
                ELSE <<123, 34, 97, 34, 58, 32, 49, 125>>
\* json.loads(bytes.decode("utf-8")): Some(payload), or None for JSONDecodeError
\* and UnicodeDecodeError
JsonLoads(b) == IF \E p \in Payloads : JsonDumps(p) = b
                THEN Some(CHOOSE p \in Payloads : JsonDumps(p) = b)
                ELSE None

\* `if payload:` and `if session_id:`: None, {} and "" are falsy
Truthy(opt, empty) == opt # None /\ opt[1] # empty

_build_header(msg_type, msg_flags, serialization, compression) ==
    <<17, msg_type * 16 + msg_flags, serialization * 16 + compression, 0>>

\* a builder without the case for connection-scoped events
_build_event_frame_uniform(event_id, payload, sid) ==
    LET payload_bytes == IF Truthy(payload, "EmptyDict") THEN JsonDumps(payload[1])
                         ELSE <<123, 125>>
        session_part == IF Truthy(sid, <<>>)
                        THEN Pack32(Len(Utf8Encode(sid[1]))) \o Utf8Encode(sid[1])
                        ELSE Pack32(0)
    IN _build_header(FULL_CLIENT_REQUEST, 4, 1, 0) \o Pack32(event_id) \o session_part
           \o Pack32(Len(payload_bytes)) \o payload_bytes

_build_event_frame(event_id, payload, sid) ==
    LET header == _build_header(FULL_CLIENT_REQUEST, 4, 1, 0)
        event_bytes == Pack32(event_id)
        payload_bytes == IF Truthy(payload, "EmptyDict") THEN JsonDumps(payload[1])
                         ELSE <<123, 125>>
        payload_size == Pack32(Len(payload_bytes))
        session_part == IF Truthy(sid, <<>>)
                        THEN Pack32(Len(Utf8Encode(sid[1]))) \o Utf8Encode(sid[1])
                        ELSE Pack32(0)
    IN IF event_id \in {START_CONNECTION, FINISH_CONNECTION}
       THEN header \o event_bytes \o payload_size \o payload_bytes
       ELSE header \o event_bytes \o session_part \o payload_size \o payload_bytes

_build_audio_frame(audio_data, sid) ==
    _build_header(AUDIO_ONLY_REQUEST, 4, 0, 0) \o Pack32(TASK_REQUEST)
        \o Pack32(Len(Utf8Encode(sid))) \o Utf8Encode(sid)
        \o Pack32(Len(audio_data)) \o audio_data

\* the dict _parse_response returns, key by key
NoResult == [error |-> FALSE, msg_type |-> None, msg_flags |-> None, event_id |-> None,
             session_id |-> None, payload |-> None, payload_raw |-> None,
             audio_data |-> None]

\* the payload part: the key the payload bytes are returned under
ParsePayload(r, msg_type, serialization, payload_data) ==
    IF msg_type = AUDIO_ONLY_RESPONSE
    THEN [r EXCEPT !.audio_data = Some(payload_data)]
    ELSE IF serialization = 1 /\ JsonLoads(payload_data) # None
    THEN [r EXCEPT !.payload = JsonLoads(payload_data)]
    ELSE [r EXCEPT !.payload_raw = Some(payload_data)]

\* from the session id size on: offset is where the size field starts
ParseBody(r, data, offset, msg_type, serialization) ==
    IF offset + 4 > Len(data) THEN r
    ELSE LET session_id_size == Unpack32(Slice(data, offset, offset + 4))
             takes == session_id_size > 0 /\ offset + 4 + session_id_size <= Len(data)
             id_bytes == Slice(data, offset + 4, offset + 4 + session_id_size)
             r2 == IF ~takes THEN r
                   ELSE [r EXCEPT !.session_id =
                            IF Utf8Decode(id_bytes) # None THEN Utf8Decode(id_bytes)
                            ELSE Some(Hex(id_bytes))]
             off2 == IF takes THEN offset + 4 + session_id_size ELSE offset + 4
         IN IF off2 + 4 > Len(data) THEN r2
            ELSE LET payload_size == Unpack32(Slice(data, off2, off2 + 4))
                 IN IF payload_size > 0 /\ off2 + 4 + payload_size <= Len(data)
                    THEN ParsePayload(r2, msg_type, serialization,
                                      Slice(data, off2 + 4, off2 + 4 + payload_size))
                    ELSE r2

_parse_response(data) ==
    IF Len(data) < 4 THEN [NoResult EXCEPT !.error = TRUE]
    ELSE LET msg_type == (data[2] \div 16) % 16
             msg_flags == data[2] % 16
             serialization == (data[3] \div 16) % 16
             r == [NoResult EXCEPT !.msg_type = Some(msg_type), !.msg_flags = Some(msg_flags)]
         IN IF (msg_flags \div 4) % 2 = 1
            THEN IF 4 + 4 > Len(data) THEN [NoResult EXCEPT !.error = TRUE]
                 ELSE ParseBody([r EXCEPT !.event_id = Some(Unpack32(Slice(data, 4, 8)))],
                                data, 8, msg_type, serialization)
            ELSE ParseBody(r, data, 4, msg_type, serialization)

\* the frames the client builds: event frames, and audio frames of the active session
EventInputs ==
    [kind : {"event"},
     event_id : {START_CONNECTION, FINISH_CONNECTION, START_SESSION, FINISH_SESSION,
                 CHAT_RAG_TEXT},
     payload : {None, Some("EmptyDict"), Some("DictA")},
     session_id : {None, Some(<<>>), Some(<<115>>), Some(<<233, 49>>)},
     audio : {<<>>}]
AudioInputs ==
    [kind : {"audio"},
     event_id : {TASK_REQUEST},
     payload : {None},
     session_id : {Some(<<115>>), Some(<<233, 49>>)},
     audio : {<<>>, <<0, 255>>}]
CodecInputs == EventInputs \cup AudioInputs

\* the longest frame these inputs build: 4 + 4 + (4 + 3) + (4 + 8) bytes
MaxFrameLen == 27

build(in) ==
    IF in.kind = "audio"
    THEN _build_audio_frame(in.audio, in.session_id[1])
    ELSE _build_event_frame(in.event_id, in.payload, in.session_id)

InitCodec ==
    /\ cd_in \in CodecInputs
    /\ cd_frame = <<>>
    /\ cd_cut = FALSE
    /\ cd_res = NoResult
    /\ cd_pc = "input"

BuildFrame ==
    /\ cd_pc = "input"
    /\ cd_frame' = build(cd_in)
    /\ cd_pc' = "built"
    /\ UNCHANGED <<cd_in, cd_cut, cd_res>>
    /\ UNCHANGED notCodec

\* the channel delivers only the first n bytes of the frame
TruncateFrame(n) ==
    /\ cd_pc = "built"
    /\ ~cd_cut
    /\ n < Len(cd_frame)
    /\ cd_frame' = SubSeq(cd_frame, 1, n)
    /\ cd_cut' = TRUE
    /\ UNCHANGED <<cd_in, cd_res, cd_pc>>
    /\ UNCHANGED notCodec

ParseFrame ==
    /\ cd_pc = "built"
    /\ cd_res' = _parse_response(cd_frame)
    /\ cd_pc' = "parsed"
    /\ UNCHANGED <<cd_in, cd_frame, cd_cut>>
    /\ UNCHANGED notCodec

NextFrame(in) ==
    /\ cd_pc = "parsed"
    /\ cd_in' = in
    /\ cd_frame' = <<>>
    /\ cd_cut' = FALSE
    /\ cd_res' = NoResult
    /\ cd_pc' = "input"
    /\ UNCHANGED notCodec

NextCodec ==
    \/ BuildFrame
    \/ \E n \in 0..MaxFrameLen : TruncateFrame(n)
    \/ ParseFrame
    \/ \E in \in CodecInputs : NextFrame(in)

-----------------------------------------------------------------------------
(* DoubaoRealtimeClient, its methods called directly *)

\* the channel operation that raised during a call, "none" when none did
Failure(op, c, o) ==
    IF op = "connect"
    THEN (IF o = "open_raises" THEN "open" ELSE IF o = "send_raises" THEN "send"
          ELSE IF o = "recv_raises" THEN "recv" ELSE "none")
    ELSE IF op = "start_session"
    THEN (IF ~c.connected THEN "none" ELSE IF SendRaises(c, o) THEN "send"
          ELSE IF o = "recv_raises" THEN "recv" ELSE "none")
    ELSE IF op \in {"finish_session", "send_audio"}
    THEN (IF c.session_id = NoSession THEN "none" ELSE IF SendRaises(c, o) THEN "send"
          ELSE IF o = "recv_raises" THEN "recv" ELSE "none")
    ELSE "none"

\* before: the client as the call found it
Call(op, o, r, ret) ==
    [op |-> op, outcome |-> o, failure |-> Failure(op, Client, o), ret |-> ret,
     raised |-> r.raised, sent |-> r.sent, before |-> Client]

Called(op, o, r, ret) ==
    /\ SetClient(r.c)
    /\ call' = Call(op, o, r, ret)
    /\ UNCHANGED notClient

CallConnect(o) ==
    LET r == connect(Client, o)
    IN /\ r.c.orphans <= MaxOrphans
       /\ Called("connect", o, r, IF r.ret THEN "true" ELSE "false")

CallStartSession(o) ==
    LET r == start_session(Client, o)
    IN Called("start_session", o, r, IF r.ret = NoSession THEN "none" ELSE "session_id")

CallFinishSession(wait_for_confirmation, o) ==
    Called("finish_session", o, finish_session(Client, wait_for_confirmation, o), "none")

CallSendAudio(o) == Called("send_audio", o, send_audio(Client, o), "none")

CallReceive(o) ==
    LET r == receive(Client, o) IN Called("receive", o, r, r.ret)

CallClose == Called("close", "ok", close(Client), "none")

RestCall == [op |-> "init", outcome |-> "ok", failure |-> "none", ret |-> "none",
             raised |-> FALSE, sent |-> 0, before |-> InitClient]

InitClientSpec ==
    /\ SetClient0
    /\ call = RestCall

NextClient ==
    \/ \E o \in ConnectOutcomes : CallConnect(o)
    \/ \E o \in StartOutcomes : CallStartSession(o)
    \/ \E w \in BOOLEAN, o \in FinishOutcomes : CallFinishSession(w, o)
    \/ \E o \in {"ok", "send_raises"} : CallSendAudio(o)
    \/ \E o \in ReceiveOutcomes : CallReceive(o)
    \/ CallClose

-----------------------------------------------------------------------------
(* finish_session with wait_for_confirmation, its wait loop step by step, *)
(* called by a task that makes one client call at a time                  *)

\* asyncio.wait_for(self.ws.recv(), timeout=10)
WaitTimeout == 10

\* what the upstream sends while the client waits: the two answers that end the
\* wait, or any other frame (TTS audio, chat text)
WaitFrames == {"SESSION_FINISHED", "SESSION_FAILED", "OTHER"}

RestFinish ==
    /\ fin_pc = "idle"
    /\ fin_clock = 0

\* finish_session up to the wait loop: the id is cleared and the finish frame sent
FinishBegins(wait_for_confirmation, o) ==
    /\ fin_pc # "waiting"
    /\ LET r == finish_session(Client, FALSE, o)
       IN /\ SetClient(r.c)
          /\ fin_pc' = IF r.raised THEN "raised"
                       ELSE IF wait_for_confirmation /\ r.sent = 1 THEN "waiting"
                       ELSE "returned"
    /\ fin_clock' = 0
    /\ UNCHANGED notFinish

\* a second passes and no frame has come
ClockTicks ==
    /\ fin_pc = "waiting"
    /\ ws = "open"
    /\ fin_clock < WaitTimeout
    /\ fin_clock' = fin_clock + 1
    /\ UNCHANGED <<clientVars, fin_pc>>
    /\ UNCHANGED notFinish

\* wait_for raises TimeoutError: logged, the call returns
WaitTimesOut ==
    /\ fin_pc = "waiting"
    /\ ws = "open"
    /\ fin_clock = WaitTimeout
    /\ fin_pc' = "returned"
    /\ UNCHANGED <<clientVars, fin_clock>>
    /\ UNCHANGED notFinish

\* recv returns a frame: SessionFinished and SessionFailed end the loop, any other
\* event is logged and the loop waits again, with a new timeout
FrameArrives(ev) ==
    /\ fin_pc = "waiting"
    /\ ws = "open"
    /\ fin_pc' = IF ev \in {"SESSION_FINISHED", "SESSION_FAILED"} THEN "returned"
                 ELSE "waiting"
    /\ fin_clock' = IF ev \in {"SESSION_FINISHED", "SESSION_FAILED"} THEN fin_clock ELSE 0
    /\ UNCHANGED clientVars
    /\ UNCHANGED notFinish

\* recv raises (the channel closed): except Exception logs it, the call returns
WaitRecvRaises ==
    /\ fin_pc = "waiting"
    /\ ws' = IF ws = "none" THEN "none" ELSE "dead"
    /\ fin_pc' = "returned"
    /\ UNCHANGED <<connected, session_id, acked, orphans, fin_clock>>
    /\ UNCHANGED notFinish

\* one step of the wait loop
FinishWaits ==
    \/ ClockTicks
    \/ WaitTimesOut
    \/ \E ev \in WaitFrames : FrameArrives(ev)
    \/ WaitRecvRaises

\* the caller's other calls, made while no finish_session is waiting
ClientCall(op) ==
    /\ fin_pc # "waiting"
    /\ \/ op = "connect" /\ \E o \in ConnectOutcomes : CallConnect(o)
       \/ op = "start_session" /\ \E o \in StartOutcomes : CallStartSession(o)
       \/ op = "close" /\ CallClose

NextFinish ==
    \/ \E op \in {"connect", "start_session", "close"} : ClientCall(op)
    \/ \E w \in BOOLEAN, o \in {"ok", "send_raises"} : FinishBegins(w, o)
    \/ ClockTicks
    \/ WaitTimesOut
    \/ \E ev \in WaitFrames : FrameArrives(ev)
    \/ WaitRecvRaises

-----------------------------------------------------------------------------
(* VoiceSession and VoiceSessionManager.  Time is counted in half seconds. *)

MaxClock == 3
MaxTimeout == 2

SessionIds == {"s1", "s2"}
UserIds == {"U1", "U2"}
SessionStates == {"idle", "listening"}
Timeouts == {0, MaxTimeout}

NoSessions == [sid \in {} |-> {}]

\* the dataclass's constructor: last_activity defaults to time.time().  created_at,
\* thread_id and the provider settings are never read by the manager and are left out.
VoiceSession(sid, user_id, agent_id, t) ==
    [session_id |-> sid, user_id |-> user_id, agent_id |-> agent_id, state |-> "idle",
     last_activity |-> t]

touch(s, t) == [s EXCEPT !.last_activity = t]

is_expired_inclusive(s, timeout, t) == (t - s.last_activity) >= timeout

is_expired(s, timeout, t) == (t - s.last_activity) > timeout

\* self.sessions[session_id] = session: an id already present is overwritten
create_session(ss, sid, user_id, agent_id, t) ==
    [x \in (DOMAIN ss) \cup {sid} |->
        IF x = sid THEN VoiceSession(sid, user_id, agent_id, t) ELSE ss[x]]

get_session(ss, sid) == IF sid \in DOMAIN ss THEN <<ss[sid]>> ELSE <<>>

\* del self.sessions[session_id] when present; the method has no return statement
remove_session(ss, sid) ==
    IF sid \in DOMAIN ss THEN [x \in (DOMAIN ss) \ {sid} |-> ss[x]] ELSE ss

update_state(ss, sid, state, t) ==
    IF sid \in DOMAIN ss
    THEN [ss EXCEPT ![sid] = touch([ss[sid] EXCEPT !.state = state], t)]
    ELSE ss

_cleanup_expired_one(ss, timeout, t) ==
    LET expired == {sid \in DOMAIN ss : is_expired(ss[sid], timeout, t)}
    IN  IF expired = {} THEN ss
        ELSE LET first == CHOOSE sid \in expired : TRUE
             IN  [x \in (DOMAIN ss) \ {first} |-> ss[x]]

\* the ids of the expired sessions are listed first, then each is deleted
_cleanup_expired(ss, timeout, t) ==
    LET expired == {sid \in DOMAIN ss : is_expired(ss[sid], timeout, t)}
    IN  [x \in (DOMAIN ss) \ expired |-> ss[x]]

\* removed: how many sessions the call deleted
SmCall(op, sid, ret, raised, timeout, removed) ==
    [op |-> op, sid |-> sid, ret |-> ret, raised |-> raised, timeout |-> timeout,
     removed |-> removed]

RestSm == SmCall("init", "none", "None", FALSE, 0, 0)

RestRegistry ==
    /\ sessions = NoSessions
    /\ session_timeout = MaxTimeout
    /\ now = 0
    /\ sm_last = RestSm

\* VoiceSessionManager(session_timeout), with a timeout of one second
InitRegistry ==
    /\ sessions = NoSessions
    /\ session_timeout = MaxTimeout
    /\ now = 0
    /\ sm_last = RestSm

CreateSession(sid, user_id) ==
    /\ sessions' = create_session(sessions, sid, user_id, "voice_agent", now)
    /\ sm_last' = SmCall("create_session", sid, "session", FALSE, 0, 0)
    /\ UNCHANGED <<session_timeout, now>>
    /\ UNCHANGED notRegistry

GetSession(sid) ==
    /\ sm_last' = SmCall("get_session", sid,
                         IF get_session(sessions, sid) = <<>> THEN "None" ELSE "session",
                         FALSE, 0, 0)
    /\ UNCHANGED <<sessions, session_timeout, now>>
    /\ UNCHANGED notRegistry

RemoveSession(sid) ==
    /\ sessions' = remove_session(sessions, sid)
    /\ sm_last' = SmCall("remove_session", sid, "None", FALSE, 0,
                         Cardinality(DOMAIN sessions) - Cardinality(DOMAIN sessions'))
    /\ UNCHANGED <<session_timeout, now>>
    /\ UNCHANGED notRegistry

UpdateState(sid, state) ==
    /\ sessions' = update_state(sessions, sid, state, now)
    /\ sm_last' = SmCall("update_state", sid, "None", FALSE, 0, 0)
    /\ UNCHANGED <<session_timeout, now>>
    /\ UNCHANGED notRegistry

\* session.is_expired(timeout) on a session object the caller holds
IsExpired(sid, timeout) ==
    /\ sid \in DOMAIN sessions
    /\ sm_last' = SmCall("is_expired", sid,
                         IF is_expired(sessions[sid], timeout, now) THEN "True" ELSE "False",
                         FALSE, timeout, 0)
    /\ UNCHANGED <<sessions, session_timeout, now>>
    /\ UNCHANGED notRegistry

\* one iteration of _cleanup_loop once its sleep is over
CleanupExpired ==
    /\ sessions' = _cleanup_expired(sessions, session_timeout, now)
    /\ sm_last' = SmCall("_cleanup_expired", "none", "None", FALSE, session_timeout,
                         Cardinality(DOMAIN sessions) - Cardinality(DOMAIN sessions'))
    /\ UNCHANGED <<session_timeout, now>>
    /\ UNCHANGED notRegistry

\* the class defines no get_user_sessions: the attribute lookup raises AttributeError
GetUserSessions(user_id) ==
    /\ sm_last' = SmCall("get_user_sessions", user_id, "None", TRUE, 0, 0)
    /\ UNCHANGED <<sessions, session_timeout, now>>
    /\ UNCHANGED notRegistry

TimePasses ==
    /\ now < MaxClock
    /\ now' = now + 1
    /\ sm_last' = SmCall("sleep", "none", "None", FALSE, 0, 0)
    /\ UNCHANGED <<sessions, session_timeout>>
    /\ UNCHANGED notRegistry

NextRegistry ==
    \/ \E sid \in SessionIds, user_id \in UserIds : CreateSession(sid, user_id)
    \/ \E sid \in SessionIds : GetSession(sid)
    \/ \E sid \in SessionIds : RemoveSession(sid)
    \/ \E sid \in SessionIds, state \in SessionStates : UpdateState(sid, state)
    \/ \E sid \in SessionIds, timeout \in Timeouts : IsExpired(sid, timeout)
    \/ CleanupExpired
    \/ \E user_id \in UserIds : GetUserSessions(user_id)
    \/ TimePasses

-----------------------------------------------------------------------------
(* VoiceSessionManager.start and stop *)

\* the cleanup tasks one manager creates
MaxLoops == 3
LoopIds == 1..MaxLoops
NoTask == 0

LcCall(op, raised) == [op |-> op, raised |-> raised]

InitLifecycle ==
    /\ cleanup_task = NoTask
    /\ loops = [t \in LoopIds |-> "absent"]
    /\ lc_last = LcCall("init", FALSE)

RestLifecycle == InitLifecycle

\* asyncio.create_task(self._cleanup_loop()), the task kept in self._cleanup_task
start(task, ls, t) == [task |-> t, loops |-> [ls EXCEPT ![t] = "running"]]

\* cancel() and await of self._cleanup_task: the loop breaks on CancelledError
stop(task, ls) ==
    IF task # NoTask /\ ls[task] = "running" THEN [ls EXCEPT ![task] = "ended"] ELSE ls

Start ==
    /\ \E t \in LoopIds :
           /\ loops[t] = "absent"
           /\ \A u \in LoopIds : u < t => loops[u] # "absent"
           /\ LET r == start(cleanup_task, loops, t)
              IN  /\ cleanup_task' = r.task
                  /\ loops' = r.loops
    /\ lc_last' = LcCall("start", FALSE)
    /\ UNCHANGED notLifecycle

Stop ==
    /\ loops' = stop(cleanup_task, loops)
    /\ lc_last' = LcCall("stop", FALSE)
    /\ UNCHANGED cleanup_task
    /\ UNCHANGED notLifecycle

\* a running loop's sleep is over: it sweeps
LoopSweeps(t) ==
    /\ loops[t] = "running"
    /\ CleanupExpired

\* a manager that is started and stopped while sessions come and time passes
NextLifecycle ==
    \/ Start
    \/ Stop
    \/ \E t \in LoopIds : LoopSweeps(t)
    \/ \E sid \in SessionIds, user_id \in UserIds : CreateSession(sid, user_id)
    \/ TimePasses

-----------------------------------------------------------------------------
(* AudioStreamHandler: the two queues *)

MaxQueue == 2

Chunks == {"a", "b"}

\* an item of a queue: a chunk of bytes, or the None that stop() puts
EndSignal == "None"

clear_input_once(q) == IF q = <<>> THEN q ELSE Tail(q)

\* while not self._input_queue.empty(): self._input_queue.get_nowait()
RECURSIVE clear_input(_)
clear_input(q) == IF q = <<>> THEN q ELSE clear_input(Tail(q))

RECURSIVE clear_output(_)
clear_output(q) == IF q = <<>> THEN q ELSE clear_output(Tail(q))

\* streak: how many clear_input calls in a row the last call ends, capped at 2
AhCall(op, before, raised, streak) ==
    [op |-> op, before |-> before, raised |-> raised, streak |-> streak]

InitAudio ==
    /\ input_queue = <<>>
    /\ output_queue = <<>>
    /\ is_speaking = FALSE
    /\ ah_last = AhCall("init", 0, FALSE, 0)
    /\ stopped = FALSE
    /\ in_done = FALSE
    /\ out_done = FALSE

RestAudio == InitAudio

\* receive_audio: base64 that does not decode raises, and nothing is queued
ReceiveAudio(valid, chunk) ==
    /\ Len(input_queue) < MaxQueue
    /\ input_queue' = IF valid THEN Append(input_queue, chunk) ELSE input_queue
    /\ ah_last' = AhCall("receive_audio", Len(input_queue), ~valid, 0)
    /\ UNCHANGED <<output_queue, is_speaking>>
    /\ UNCHANGED <<stopped, in_done, out_done>>
    /\ UNCHANGED notAudio

\* the consumer of get_input_stream takes one item: a chunk is yielded, the end
\* signal ends the generator
GetInput ==
    /\ ~in_done
    /\ input_queue # <<>>
    /\ input_queue' = Tail(input_queue)
    /\ in_done' = (Head(input_queue) = EndSignal)
    /\ ah_last' = AhCall("get_input_stream", Len(input_queue), FALSE, 0)
    /\ UNCHANGED <<output_queue, is_speaking, stopped, out_done>>
    /\ UNCHANGED notAudio

\* the same for the consumer of get_output_stream
GetOutput ==
    /\ ~out_done
    /\ output_queue # <<>>
    /\ output_queue' = Tail(output_queue)
    /\ out_done' = (Head(output_queue) = EndSignal)
    /\ ah_last' = AhCall("get_output_stream", Len(input_queue), FALSE, 0)
    /\ UNCHANGED <<input_queue, is_speaking, stopped, in_done>>
    /\ UNCHANGED notAudio

SendAudio(chunk) ==
    /\ Len(output_queue) < MaxQueue
    /\ output_queue' = Append(output_queue, chunk)
    /\ ah_last' = AhCall("send_audio", Len(input_queue), FALSE, 0)
    /\ UNCHANGED <<input_queue, is_speaking>>
    /\ UNCHANGED <<stopped, in_done, out_done>>
    /\ UNCHANGED notAudio

SetSpeaking(speaking) ==
    /\ is_speaking' = speaking
    /\ ah_last' = AhCall("set_speaking", Len(input_queue), FALSE, 0)
    /\ UNCHANGED <<input_queue, output_queue>>
    /\ UNCHANGED <<stopped, in_done, out_done>>
    /\ UNCHANGED notAudio

ClearInput ==
    /\ input_queue' = clear_input(input_queue)
    /\ ah_last' = AhCall("clear_input", Len(input_queue), FALSE,
                         IF ah_last.op = "clear_input" THEN 2 ELSE 1)
    /\ UNCHANGED <<output_queue, is_speaking>>
    /\ UNCHANGED <<stopped, in_done, out_done>>
    /\ UNCHANGED notAudio

ClearOutput ==
    /\ output_queue' = clear_output(output_queue)
    /\ ah_last' = AhCall("clear_output", Len(input_queue), FALSE, 0)
    /\ UNCHANGED <<input_queue, is_speaking>>
    /\ UNCHANGED <<stopped, in_done, out_done>>
    /\ UNCHANGED notAudio

\* stop: the end signal goes onto both queues
StopAudio ==
    /\ Len(input_queue) < MaxQueue
    /\ Len(output_queue) < MaxQueue
    /\ input_queue' = Append(input_queue, EndSignal)
    /\ output_queue' = Append(output_queue, EndSignal)
    /\ ah_last' = AhCall("stop", Len(input_queue), FALSE, 0)
    /\ stopped' = TRUE
    /\ UNCHANGED <<is_speaking, in_done, out_done>>
    /\ UNCHANGED notAudio

NextAudio ==
    \/ \E valid \in BOOLEAN, chunk \in Chunks : ReceiveAudio(valid, chunk)
    \/ GetInput
    \/ GetOutput
    \/ \E chunk \in Chunks : SendAudio(chunk)
    \/ \E speaking \in BOOLEAN : SetSpeaking(speaking)
    \/ ClearInput
    \/ ClearOutput
    \/ StopAudio

-----------------------------------------------------------------------------
(* retry_with_backoff.  Delays are whole seconds. *)

MaxRetries == 3

RetryConfig(max_retries, base_delay, max_delay, exponential_base) ==
    [max_retries |-> max_retries, base_delay |-> base_delay, max_delay |-> max_delay,
     exponential_base |-> exponential_base]

\* the configurations tried; RetryConfig() is RetryConfig(3, 1, 30, 2)
RetryConfigs ==
    {RetryConfig(m, b, d, e) : m \in 0..MaxRetries, b \in {1, 2}, d \in {3, 30}, e \in {2, 3}}

\* what await func() does: it returns, raises an Exception, or raises
\* asyncio.CancelledError, which `except Exception` does not catch
FuncOutcomes == {"returns", "raises", "cancelled"}

\* the object func returns or raises at its call number n
Value(n)      == [kind |-> "value", call |-> n]
Error(n)      == [kind |-> "Exception", call |-> n]
Cancelled(n)  == [kind |-> "CancelledError", call |-> n]
\* `raise None`: TypeError, exceptions must derive from BaseException
RaiseNone     == [kind |-> "TypeError", call |-> 0]

RECURSIVE Pow(_, _)
Pow(b, n) == IF n = 0 THEN 1 ELSE b * Pow(b, n - 1)

Min(a, b) == IF a <= b THEN a ELSE b

\* lines 68-71
delay(cfg, a) == Min(cfg.base_delay * Pow(cfg.exponential_base, a), cfg.max_delay)

\* a loop that never takes the break of line 65
is_last_attempt_never(cfg, a) == FALSE

\* line 64
is_last_attempt(cfg, a) == a = cfg.max_retries - 1

CallsOf(log) == SelectSeq(log, LAMBDA e : e.op = "func")

InitRetry ==
    /\ config \in RetryConfigs
    /\ attempt = 0
    /\ last_exception = <<>>
    /\ rt_pc = "loop"
    /\ rt_out = <<>>
    /\ rt_log = <<>>

RestRetry ==
    /\ config = RetryConfig(3, 1, 30, 2)
    /\ attempt = 0
    /\ last_exception = <<>>
    /\ rt_pc = "loop"
    /\ rt_out = <<>>
    /\ rt_log = <<>>

\* one iteration of the for loop, up to the return, the raise or the sleep
Attempt(o) ==
    /\ rt_pc = "loop"
    /\ attempt < config.max_retries
    /\ LET n == Len(CallsOf(rt_log)) + 1
           called == Append(rt_log, [op |-> "func", outcome |-> o, n |-> n])
       IN CASE o = "returns" ->
                 /\ rt_pc' = "returned"
                 /\ rt_out' = <<Value(n)>>
                 /\ rt_log' = called
                 /\ UNCHANGED last_exception
            [] o = "cancelled" ->
                 /\ rt_pc' = "raised"
                 /\ rt_out' = <<Cancelled(n)>>
                 /\ rt_log' = called
                 /\ UNCHANGED last_exception
            [] o = "raises" ->
                 /\ last_exception' = <<Error(n)>>
                 /\ IF is_last_attempt(config, attempt)
                    THEN /\ rt_pc' = "raised"
                         /\ rt_out' = <<Error(n)>>
                         /\ rt_log' = called
                    ELSE /\ rt_pc' = "sleeping"
                         /\ rt_log' = Append(called, [op |-> "sleep",
                                                      outcome |-> "sleeps",
                                                      n |-> delay(config, attempt)])
                         /\ UNCHANGED rt_out
    /\ UNCHANGED <<config, attempt>>
    /\ UNCHANGED notRetry

\* asyncio.sleep(delay) returns: the next iteration
SleepEnds ==
    /\ rt_pc = "sleeping"
    /\ attempt' = attempt + 1
    /\ rt_pc' = "loop"
    /\ UNCHANGED <<config, last_exception, rt_out, rt_log>>
    /\ UNCHANGED notRetry

\* range(max_retries) is exhausted without the break: raise last_exception
LoopEnds ==
    /\ rt_pc = "loop"
    /\ attempt >= config.max_retries
    /\ rt_pc' = "raised"
    /\ rt_out' = IF last_exception = <<>> THEN <<RaiseNone>> ELSE last_exception
    /\ UNCHANGED <<config, attempt, last_exception, rt_log>>
    /\ UNCHANGED notRetry

NextRetry ==
    \/ \E o \in FuncOutcomes : Attempt(o)
    \/ SleepEnds
    \/ LoopEnds

-----------------------------------------------------------------------------
(* The specifications: one component runs, the others rest *)

RestClient    == InitClientSpec
RestGateway   == /\ interrupt_enabled = TRUE
                 /\ knowledges = FALSE
                 /\ is_listening = FALSE
                 /\ receive_task = "none"
                 /\ liveTasks = 0
                 /\ conn = "open"
                 /\ status = StatusIdle
                 /\ out = <<StatusIdle>>
                 /\ last = Step("accept", FALSE, FALSE, FALSE)
                 /\ current_asr_text = FALSE
                 /\ upTurn = "idle"
                 /\ loop_time = 0
                 /\ last_activity_time = 0
                 /\ last_inbound = 0
                 /\ timeout_task = "sleeping"
RestInterrupt == InitInterrupt
RestTTS       == /\ text_chunks = <<>>
                 /\ text_buffer = <<>>
                 /\ tts_pc = "read"
                 /\ inflight = {}
                 /\ emitted = <<>>
                 /\ consumed = 0
                 /\ source = <<>>
                 /\ cuts = <<>>
RestCodec     == /\ cd_in = [kind |-> "event", event_id |-> START_CONNECTION,
                             payload |-> None, session_id |-> None, audio |-> <<>>]
                 /\ cd_frame = <<>>
                 /\ cd_cut = FALSE
                 /\ cd_res = NoResult
                 /\ cd_pc = "input"

InitSpecClient ==
    InitClientSpec /\ RestGateway /\ RestInterrupt /\ RestTTS /\ RestCodec /\ RestFinish
    /\ RestRegistry /\ RestAudio /\ RestRetry /\ RestLifecycle
SpecClient == InitSpecClient /\ [][NextClient]_vars

InitSpecGateway ==
    InitGateway /\ call = RestCall /\ RestInterrupt /\ RestTTS /\ RestCodec /\ RestFinish
    /\ RestRegistry /\ RestAudio /\ RestRetry /\ RestLifecycle
SpecGateway == InitSpecGateway /\ [][NextGateway]_vars

\* the message loop with its timeout task, while time passes
NextIdle ==
    \/ LoopTimePasses
    \/ CheckSessionTimeout
    \/ TimeoutExit
    \/ \E has_data \in BOOLEAN, o \in {"ok", "send_raises"} : ClientAudio(has_data, o)
    \/ \E oc \in ConnectOutcomes, ofin \in FinishOutcomes, ost \in StartOutcomes :
           ControlStart(oc, ofin, ost)
    \/ ControlStop
    \/ \E ofin \in FinishOutcomes, ost \in StartOutcomes : ControlInterrupt(ofin, ost)
    \/ ClientInvalid
    \/ ClientUnknown
    \/ ClientDisconnect
SpecIdle == InitSpecGateway /\ [][NextIdle]_vars

InitSpecAccept ==
    InitAccept /\ call = RestCall /\ RestInterrupt /\ RestTTS /\ RestCodec /\ RestFinish
    /\ RestRegistry /\ RestAudio /\ RestRetry /\ RestLifecycle
NextAccept ==
    \/ \E token \in {"invalid", "no_sub", "valid"}, agent_exists \in BOOLEAN,
          credentials \in BOOLEAN, enabled \in BOOLEAN, kbs \in BOOLEAN :
           Accept(token, agent_exists, credentials, enabled, kbs)
    \/ NextGateway
SpecAccept == InitSpecAccept /\ [][NextAccept]_vars

InitSpecInterrupt ==
    InitInterrupt /\ RestClient /\ RestGateway /\ RestTTS /\ RestCodec /\ RestFinish
    /\ RestRegistry /\ RestAudio /\ RestRetry /\ RestLifecycle
SpecInterrupt == InitSpecInterrupt /\ [][NextInterrupt]_vars

InitSpecTTS ==
    InitTTS /\ RestClient /\ RestGateway /\ RestInterrupt /\ RestCodec /\ RestFinish
    /\ RestRegistry /\ RestAudio /\ RestRetry /\ RestLifecycle
SpecTTS == InitSpecTTS /\ [][NextTTS]_vars

InitSpecFinish ==
    InitClientSpec /\ RestGateway /\ RestInterrupt /\ RestTTS /\ RestCodec /\ RestFinish
    /\ RestRegistry /\ RestAudio /\ RestRetry /\ RestLifecycle
\* the event loop keeps running the waiting coroutine, and time passes
SpecFinish == InitSpecFinish /\ [][NextFinish]_vars /\ WF_vars(FinishWaits)

InitSpecRegistry ==
    /\ InitRegistry /\ RestClient /\ RestGateway /\ RestInterrupt /\ RestTTS /\ RestCodec
    /\ RestFinish /\ RestAudio /\ RestRetry /\ RestLifecycle
SpecRegistry == InitSpecRegistry /\ [][NextRegistry]_vars

InitSpecAudio ==
    /\ InitAudio /\ RestClient /\ RestGateway /\ RestInterrupt /\ RestTTS /\ RestCodec
    /\ RestFinish /\ RestRegistry /\ RestRetry /\ RestLifecycle
SpecAudio == InitSpecAudio /\ [][NextAudio]_vars
\* the consumers of the two streams keep iterating: an item that waits in a queue
\* is taken
SpecAudioLive ==
    InitSpecAudio /\ [][NextAudio]_vars /\ WF_vars(GetInput) /\ WF_vars(GetOutput)

InitSpecRetry ==
    /\ InitRetry /\ RestClient /\ RestGateway /\ RestInterrupt /\ RestTTS /\ RestCodec
    /\ RestFinish /\ RestRegistry /\ RestAudio /\ RestLifecycle
SpecRetry == InitSpecRetry /\ [][NextRetry]_vars

InitSpecLifecycle ==
    /\ InitLifecycle /\ InitRegistry /\ RestClient /\ RestGateway /\ RestInterrupt /\ RestTTS
    /\ RestCodec /\ RestFinish /\ RestAudio /\ RestRetry
SpecLifecycle == InitSpecLifecycle /\ [][NextLifecycle]_vars

InitSpecCodec ==
    InitCodec /\ RestClient /\ RestGateway /\ RestInterrupt /\ RestTTS /\ RestFinish
    /\ RestRegistry /\ RestAudio /\ RestRetry /\ RestLifecycle
SpecCodec == InitSpecCodec /\ [][NextCodec]_vars

-----------------------------------------------------------------------------
(* Properties of the message loop (SpecGateway) *)

\* C1: a connection never has more than one live handle_doubao_events task, and
\* receive_task names the live one: a start or an interrupt creates a task only
\* when the previous one has ended or has been cancelled and awaited
C1_OneEventTask ==
    /\ liveTasks \in {0, 1}
    /\ liveTasks = 1 <=> receive_task = "live"
    /\ last.created => liveTasks = 1

\* an interrupt cancelled the running task, awaited it and created its successor
C1_Witness ==
    /\ last.op = "interrupt"
    /\ last.cancelled
    /\ last.created
    /\ liveTasks = 1

\* C2: a control interrupt handled with interrupts enabled and no upstream failure
\* leaves the connection listening and tells the browser so, whatever the state
\* it arrived in
C2_InterruptLeavesListening ==
    (last.op = "interrupt" /\ interrupt_enabled /\ ~last.fault) =>
        /\ is_listening
        /\ status = StatusListening
        /\ out = <<StatusListening>>

\* no response of the upstream is in progress and the browser was told none is
NoTurnInFlight == upTurn = "idle" /\ status \in {StatusIdle, StatusListening}

\* C4: a control interrupt handled while no turn is in flight changes neither the
\* upstream session nor the loop's state and sends nothing to the browser
C4_IdleInterruptIsNoOp ==
    [][(conn = "open" /\ last'.op = "interrupt" /\ NoTurnInFlight) =>
           /\ out' = <<>>
           /\ UNCHANGED <<clientVars, is_listening, receive_task, status>>]_vars

\* C16: a malformed message (one ClientMessage rejects, or one whose type or action
\* no branch handles) gets one error event, changes no state of the connection and
\* leaves it open
C16_MalformedGetsOneError ==
    [][last'.op \in {"invalid", "unknown"} =>
           /\ out' = <<ErrorEvent>>
           /\ conn' = "open"
           /\ UNCHANGED <<clientVars, is_listening, receive_task, liveTasks, status>>]_vars

\* C17: a connection request rejected for its token, its agent or the missing
\* upstream credentials is closed with the policy-violation code and nothing else
\* is sent; no upstream client is connected, no session started, no task created
C17_RejectedWithPolicyViolation ==
    last.op = "reject" =>
        /\ out = <<PolicyViolation>>
        /\ conn = "closed"
        /\ ws = "none" /\ ~connected /\ session_id = NoSession
        /\ receive_task = "none" /\ liveTasks = 0

\* C18: within a turn the browser is told "processing" before it gets the final
\* transcription, and at the end of the reply response_end comes before audio_end
C18_TurnEventOrder ==
    /\ (\E i \in 1..Len(out) : out[i] = "transcription:final") => status = StatusProcessing
    /\ \A i, j \in 1..Len(out) :
           (out[i] = "response_end" /\ out[j] = "audio_end") => i < j

\* C19: a control stop that follows a successful control start at once, no audio
\* in between, sends status idle (after status processing or not) and nothing else
C19_EmptyTurnReturnsToIdle ==
    [][(last.op = "start" /\ is_listening /\ last'.op = "stop") =>
           /\ out' \in {<<StatusIdle>>, <<StatusProcessing, StatusIdle>>}
           /\ status' = StatusIdle]_vars

\* C20: audio is forwarded to the upstream only while the connection is listening
C20_AudioOnlyWhileListening ==
    last.op = "audio_forwarded" => is_listening

\* C27: a control start or control interrupt is answered with status listening
\* only when the client is connected and the upstream acknowledged its session
C27_ListeningOnlyWithAckedSession ==
    (last.op \in {"start", "interrupt"} /\ \E i \in 1..Len(out) : out[i] = StatusListening) =>
        (is_connected(Client) /\ session_id # NoSession /\ acked)

\* C28: the message loop calls connect, start_session or finish_session only
\* while no event task is running: a task that was running has been cancelled and
\* awaited first, and a task running afterwards is one the step created
C28_LoopReadsOnlyWithoutTask ==
    [][(\/ last'.op = "start" /\ ~(is_connected(Client) /\ session_id # NoSession)
        \/ last'.op = "interrupt" /\ interrupt_enabled) =>
           /\ receive_task = "live" => last'.cancelled
           /\ receive_task' = "live" => last'.created]_vars

\* an interrupt that found the event task running, cancelled it and started a session
C28_Witness ==
    /\ last.op = "interrupt"
    /\ last.cancelled
    /\ last.created
    /\ acked

\* C29: when the upstream channel closes during a session the client is marked
\* disconnected and the browser is sent exactly one error event for it
C29_UpstreamCloseSendsOneError ==
    last.op = "closed" => (~connected /\ out = <<ErrorEvent>>)

\* C30: when the reply of a turn ends (TTS ended) the status sent after the
\* end-of-response events is idle
C30_ResponseEndReturnsIdle ==
    last.op = "TTS_ENDED" => (out[Len(out)] = StatusIdle /\ status = StatusIdle)

\* C30, amended: the status sent after the end-of-response events is idle when the
\* connection is no longer listening (control stop was received), listening otherwise
C30_ResponseEndFollowsListening ==
    last.op = "TTS_ENDED" =>
        /\ out[Len(out)] = (IF is_listening THEN StatusListening ELSE StatusIdle)
        /\ status = out[Len(out)]
        /\ \A i \in 1..(Len(out) - 1) : out[i] \in {"audio_end", "response_end"}

\* the reply ended after a control stop: the connection is back to idle
C30_Witness ==
    /\ last.op = "TTS_ENDED"
    /\ ~is_listening
    /\ status = StatusIdle

-----------------------------------------------------------------------------
(* Properties of InterruptHandler (SpecInterrupt) *)

\* C3: after handle_interrupt called with several tasks pending, one of them
\* running, the pending list is empty, the interrupt event is set and every task
\* that was pending has completed or has been cancelled
C3_InterruptCancelsPending ==
    (/\ ih_last.op = "handle_interrupt"
     /\ Cardinality(ih_last.before) >= 2
     /\ \E t \in ih_last.before : task_state[t] \in {"running", "cancelling"}) =>
        /\ pending_tasks = <<>>
        /\ interrupt_event
        /\ \A t \in ih_last.before : task_state[t] \in {"done", "cancelling", "cancelled"}

-----------------------------------------------------------------------------
(* Properties of synthesize_stream (SpecTTS) *)

\* C5: audio chunks are yielded in the order of their units in the text, and a
\* unit's synthesis starts only when no other unit's synthesis is under way
C5_AudioInUnitOrder ==
    /\ \A i, j \in 1..Len(emitted) : i < j => emitted[i] <= emitted[j]
    /\ Cardinality(inflight) <= 1

\* chunks of two units were yielded, and a later unit is being synthesized
C5_Witness ==
    /\ \E i, j \in 1..Len(emitted) : emitted[i] < emitted[j]
    /\ \E u \in inflight : u.pos > emitted[Len(emitted)]

\* C6: the generator stops only when no text is left to synthesize: a unit whose
\* synthesis failed is skipped and the units after it are still synthesized
C6_LaterUnitsSurviveFailure ==
    tts_pc \in {"done", "raised"} =>
        /\ \A i \in 1..Len(text_chunks) : strip(text_chunks[i]) = <<>>
        /\ strip(text_buffer) = <<>>

\* the buffer has been flushed: the stream ended and its rest became the last piece
Flushed == cuts # <<>> /\ cuts[Len(cuts)].final

\* the text not cut yet: the buffer and the fragments still to be read
Pending == (IF Flushed THEN <<>> ELSE text_buffer) \o Join(text_chunks)

RawCuts == [i \in 1..Len(cuts) |-> cuts[i].raw]

\* the units handed to synthesis, in order
Units == SelectSeq([i \in 1..Len(cuts) |-> cuts[i].unit], LAMBDA u : u # <<>>)

NoWhitespace(s) == SelectSeq(s, LAMBDA ch : ch \notin Whitespace)

NoEnding(s) == \A k \in 1..Len(s) : s[k] \notin sentence_endings

\* unit is raw without the whitespace at its two ends
Trimmed(raw, unit) ==
    /\ unit # <<>> => unit[1] \notin Whitespace /\ unit[Len(unit)] \notin Whitespace
    /\ \E i \in 1..(Len(raw) + 1), j \in 0..Len(raw) :
           /\ unit = SubSeq(raw, i, j)
           /\ \A k \in 1..Len(raw) : (k < i \/ k > j) => raw[k] \in Whitespace

\* C35: every piece cut while the stream runs ends at the first sentence ending of
\* the buffer, cutting goes on until the buffer holds no ending, and the end of the
\* stream flushes the rest; the pieces cut, the buffer and the unread fragments
\* always make up the stream's text, each unit is its piece without the whitespace
\* at its ends, and once the stream is done the units together are the whole text
\* but for whitespace
C35_UnitsReproduceText ==
    /\ Join(RawCuts) \o Pending = source
    /\ \A i \in 1..Len(cuts) :
           /\ Trimmed(cuts[i].raw, cuts[i].unit)
           /\ IF cuts[i].final
              THEN i = Len(cuts) /\ NoEnding(cuts[i].raw)
              ELSE LET r == cuts[i].raw
                   IN  /\ r # <<>>
                       /\ r[Len(r)] \in sentence_endings
                       /\ NoEnding(SubSeq(r, 1, Len(r) - 1))
    /\ \A u \in inflight : \E i \in 1..Len(cuts) : cuts[i].unit = u.text /\ u.text # <<>>
    /\ tts_pc \in {"read", "final"} => NoEnding(text_buffer)
    /\ tts_pc = "done" =>
           /\ Flushed
           /\ Join(RawCuts) = source
           /\ NoWhitespace(Join(Units)) = NoWhitespace(source)

\* a finished stream whose first unit spans two fragments, with a blank piece
\* dropped and a last unit trimmed
C35_Witness ==
    /\ tts_pc = "done"
    /\ Len(Units) >= 2
    /\ cuts[1].raw = <<"a", "a", "!">>
    /\ \E i \in 1..Len(cuts) : cuts[i].unit = <<>> /\ cuts[i].raw # <<>>
    /\ cuts[Len(cuts)].unit # <<>> /\ cuts[Len(cuts)].unit # cuts[Len(cuts)].raw

\* C36: a buffer of more than 40 code points with no sentence ending in it is cut:
\* whenever the generator goes back to reading, at most 40 code points wait
C36_BufferBounded ==
    tts_pc \in {"read", "final"} => Len(text_buffer) <= 40

-----------------------------------------------------------------------------
(* Properties of the frame codec (SpecCodec) *)

ConnectionScoped(in) ==
    in.kind = "event" /\ in.event_id \in {START_CONNECTION, FINISH_CONNECTION}

\* an absent value and an empty one are the same value
Norm(opt, empty) == IF Truthy(opt, empty) THEN opt ELSE None

\* C7: parsing the frame built from an event id, a session id and a payload gives
\* the same event id, session id and payload (JSON payload, or raw audio bytes)
C7_RoundTrip ==
    (cd_pc = "parsed" /\ ~cd_cut) =>
        /\ ~cd_res.error
        /\ cd_res.event_id = Some(cd_in.event_id)
        /\ Norm(cd_res.session_id, <<>>) =
               IF ConnectionScoped(cd_in) THEN None ELSE Norm(cd_in.session_id, <<>>)
        /\ IF cd_in.kind = "audio"
           THEN /\ Norm(cd_res.payload_raw, <<>>) = Norm(Some(cd_in.audio), <<>>)
                /\ cd_res.payload = None
           ELSE /\ Norm(cd_res.payload, "EmptyDict") = Norm(cd_in.payload, "EmptyDict")
                /\ cd_res.payload_raw = None

\* C8: parsing a proper prefix of a built frame returns the error result
C8_TruncatedIsError ==
    (cd_pc = "parsed" /\ cd_cut) => cd_res.error

\* the bytes of the session id and of the payload a frame is built from
SessionBytes(in) ==
    IF Truthy(in.session_id, <<>>) THEN Utf8Encode(in.session_id[1]) ELSE <<>>
PayloadBytes(in) ==
    IF in.kind = "audio" THEN in.audio
    ELSE IF Truthy(in.payload, "EmptyDict") THEN JsonDumps(in.payload[1])
    ELSE <<123, 125>>

\* C9: after the event id, a frame of a connection-scoped event goes on with the
\* payload length and the payload; a frame of any other event goes on with the
\* 4-byte length of the session id (0 without one), the id's bytes, the payload
\* length and the payload
C9_SessionIdField ==
    (cd_pc \in {"built", "parsed"} /\ ~cd_cut) =>
        /\ Len(cd_frame) >= 8
        /\ Unpack32(Slice(cd_frame, 4, 8)) = cd_in.event_id
        /\ Slice(cd_frame, 8, Len(cd_frame)) =
               IF ConnectionScoped(cd_in)
               THEN Pack32(Len(PayloadBytes(cd_in))) \o PayloadBytes(cd_in)
               ELSE Pack32(Len(SessionBytes(cd_in))) \o SessionBytes(cd_in)
                        \o Pack32(Len(PayloadBytes(cd_in))) \o PayloadBytes(cd_in)

\* a connection-scoped frame was built by a caller that passed a session id
C9_Witness ==
    /\ cd_pc = "built"
    /\ ~cd_cut
    /\ ConnectionScoped(cd_in)
    /\ Truthy(cd_in.session_id, <<>>)
    /\ Len(cd_frame) = 12 + Len(PayloadBytes(cd_in))

-----------------------------------------------------------------------------
(* Properties of DoubaoRealtimeClient (SpecClient) *)

\* C10: a connect() or start_session() during which the channel's open, send or
\* receive raised returns False or None, and no exception leaves the call
C10_TransportFailureReturnsNone ==
    (call.op \in {"connect", "start_session"} /\ call.failure # "none") =>
        /\ ~call.raised
        /\ call.ret \in {"false", "none"}

\* C11: connect() returns True exactly when the frame received after the
\* connection-start frame is the acknowledgement, the client is then connected, and
\* after a connect() that returned False is_connected is false
C11_ConnectOnlyOnAck ==
    call.op = "connect" =>
        /\ call.ret = "true" <=> call.outcome = "ack"
        /\ call.ret = "true" => is_connected(Client)
        /\ call.ret = "false" => ~is_connected(Client)

\* C12: finish_session leaves session_id None whatever the channel did, and called
\* without a session it sends nothing and changes nothing
C12_FinishClearsSession ==
    [][call'.op = "finish_session" =>
           /\ session_id' = NoSession
           /\ session_id = NoSession => (call'.sent = 0 /\ UNCHANGED clientVars)]_vars

\* finish_session was called with a session and the send of the finish frame raised
C12_Witness ==
    /\ call.op = "finish_session"
    /\ call.before.session_id # NoSession
    /\ call.raised
    /\ session_id = NoSession

\* C14: receive() returns None or the one frame it read; a timeout returns None
\* and changes nothing; closure returns None and clears connected, which only a
\* connect() that returns True sets again
C14_ReceiveOneFrame ==
    [][/\ call'.op = "receive" =>
              /\ call'.ret \in {"none"} \cup ServerEvents
              /\ call'.sent = 0 /\ ~call'.raised
              /\ (call'.outcome = "timeout" /\ ws = "open") =>
                     (call'.ret = "none" /\ UNCHANGED clientVars)
              /\ (call'.outcome = "closed" /\ ws # "none") =>
                     (call'.ret = "none" /\ ~connected')
       /\ (~connected /\ connected') => (call'.op = "connect" /\ call'.ret = "true")]_vars

\* receive() met the closure of the channel of a connected client
C14_Witness ==
    /\ call.op = "receive"
    /\ call.outcome = "closed"
    /\ call.before.connected /\ call.before.ws = "open"
    /\ ~connected
    /\ call.ret = "none"

\* C15: close() never raises; afterwards the channel handle is None, so that
\* is_connected is false, and close() on a client without a handle does nothing
C15_CloseNeverRaises ==
    [][call'.op = "close" =>
           /\ ~call'.raised
           /\ ws' = "none"
           /\ ~is_connected([ws |-> ws', connected |-> connected'])
           /\ ws = "none" => (call'.sent = 0 /\ UNCHANGED clientVars)]_vars

\* close() was called on a client whose channel had already closed
C15_Witness ==
    /\ call.op = "close"
    /\ call.before.ws = "dead"
    /\ call.before.connected
    /\ ws = "none"
    /\ ~connected

\* C26: when start_session returns None the client holds no session id afterwards
C26_FailedStartLeavesNoSession ==
    (call.op = "start_session" /\ ~call.raised /\ call.ret = "none") =>
        session_id = NoSession

-----------------------------------------------------------------------------
(* Properties of the wait loop of finish_session (SpecFinish) *)

\* C13: a finish_session that waits for the confirmation eventually returns,
\* whatever frames the upstream sends meanwhile
C13_FinishReturns == (fin_pc = "waiting") ~> (fin_pc # "waiting")

-----------------------------------------------------------------------------
(* Properties of VoiceSessionManager (SpecRegistry) *)

\* C21: get_user_sessions(u) returns the sessions registered for user u (it does
\* not raise), and a removal leaves every other session present and unchanged
C21_UserSessionsIsolated ==
    [][/\ sm_last'.op = "get_user_sessions" =>
              (~sm_last'.raised /\ sm_last'.ret = "sessions")
       /\ sm_last'.op = "remove_session" =>
              \A other \in (DOMAIN sessions) \ {sm_last'.sid} :
                  other \in DOMAIN sessions' /\ sessions'[other] = sessions[other]]_vars

\* C22: a run of the sweep removes exactly the sessions idle for longer than the
\* session timeout; those it keeps are within the timeout and unchanged
C22_SweepRemovesExactlyExpired ==
    [][sm_last'.op = "_cleanup_expired" =>
           /\ DOMAIN sessions' \subseteq DOMAIN sessions
           /\ \A sid \in DOMAIN sessions :
                  /\ (sid \in DOMAIN sessions') <=>
                         (now - sessions[sid].last_activity <= session_timeout)
                  /\ sid \in DOMAIN sessions' => sessions'[sid] = sessions[sid]
           /\ \A sid \in DOMAIN sessions' :
                  now' - sessions'[sid].last_activity <= session_timeout]_vars

\* a sweep that removed a session and kept another
C22_Witness ==
    /\ sm_last.op = "_cleanup_expired"
    /\ sm_last.removed >= 1
    /\ sessions # NoSessions

\* C23: is_expired(timeout) is true exactly when now - last_activity > timeout, so
\* it is false right after the session is created or updated
C23_ExpiredStrictlyAfterTimeout ==
    [][sm_last'.op = "is_expired" =>
           LET idle == now - sessions[sm_last'.sid].last_activity
           IN  /\ (sm_last'.ret = "True") <=> (idle > sm_last'.timeout)
               /\ (sm_last.op \in {"create_session", "update_state"}
                      /\ sm_last.sid = sm_last'.sid) => sm_last'.ret = "False"]_vars

\* timeout one second (2 half seconds), idle for 1.5 seconds: timed out
C23_Witness ==
    /\ sm_last.op = "is_expired"
    /\ sm_last.timeout = 2
    /\ now - sessions[sm_last.sid].last_activity = 3
    /\ sm_last.ret = "True"

\* C24: remove_session on a registered id returns True, get_session then returns
\* None and one session fewer is registered; on an unregistered id nothing changes
\* and nothing is raised
C24_RemoveReportsSuccess ==
    [][sm_last'.op = "remove_session" =>
           IF sm_last'.sid \in DOMAIN sessions
           THEN /\ sm_last'.ret = "True"
                /\ get_session(sessions', sm_last'.sid) = <<>>
                /\ Cardinality(DOMAIN sessions') = Cardinality(DOMAIN sessions) - 1
           ELSE sessions' = sessions /\ ~sm_last'.raised]_vars

-----------------------------------------------------------------------------
(* Properties of AudioStreamHandler (SpecAudio) *)

\* C25: clear_input never raises and leaves the input queue empty, whether the
\* queue was empty (any number of times in a row) or not
C25_ClearInputLeavesEmpty ==
    [][ah_last'.op = "clear_input" =>
           (Len(input_queue') = 0 /\ ~ah_last'.raised)]_vars

\* clear_input called on an empty queue, right after another clear_input
C25_Witness ==
    /\ ah_last.op = "clear_input"
    /\ ah_last.before = 0
    /\ ah_last.streak = 2
    /\ input_queue = <<>>

-----------------------------------------------------------------------------
(* Properties of the idle timer (SpecIdle) *)

\* C31: every inbound client message, valid or malformed, refreshes the
\* connection's last-activity time: it is never older than the last message
C31_EveryMessageRefreshes ==
    conn = "open" => last_activity_time >= last_inbound

\* C32: the timeout check closes a connection only when its last client message
\* is older than session_timeout
C32_ClosedOnlyWhenIdle ==
    last.op = "timeout" => loop_time - last_inbound > IdleTimeout

-----------------------------------------------------------------------------
(* Properties of the upstream channels (SpecGateway) *)

\* the upstream channels of the connection that are open
OpenChannels == orphans + (IF ws = "open" THEN 1 ELSE 0)

\* C33: the client holds at most one open upstream channel at a time, and when the
\* connection handler has exited every channel it opened has been closed
C33_NoChannelLeftOpen ==
    /\ OpenChannels <= 1
    /\ conn = "closed" => OpenChannels = 0

-----------------------------------------------------------------------------
(* Properties of InterruptHandler across responses (SpecInterrupt) *)

\* C34: when set_tts_playing(True) begins the playback of a response the interrupt
\* event is clear, and from then on only a handle_interrupt that returns True sets it
C34_NewPlaybackNotInterrupted ==
    [][/\ (ih_last'.op = "set_tts_playing" /\ ih_last'.ret) => ~interrupt_event'
       /\ (~interrupt_event /\ interrupt_event') =>
              (ih_last'.op = "handle_interrupt" /\ ih_last'.ret)]_vars

-----------------------------------------------------------------------------
(* Properties of retry_with_backoff (SpecRetry) *)

Last(s) == s[Len(s)]

RetryEnded == rt_pc \in {"returned", "raised"}

\* C37: func is called at most max_retries times; a call that succeeds is the last
\* one and its result is returned; when max_retries calls have failed the exception
\* of the last one is raised; a sleep follows a failed call and precedes the next
\* call, and none follows the last call
C37_RetriesBounded ==
    LET calls == CallsOf(rt_log)
    IN  /\ Len(calls) <= config.max_retries
        /\ \A i \in 1..Len(calls) :
               calls[i].outcome = "returns" =>
                   /\ i = Len(calls)
                   /\ rt_pc = "returned"
                   /\ rt_out = <<Value(i)>>
        /\ rt_pc = "returned" => (calls # <<>> /\ Last(calls).outcome = "returns")
        /\ (Len(calls) = config.max_retries /\ calls # <<>>
               /\ \A i \in 1..Len(calls) : calls[i].outcome = "raises") =>
               (rt_pc = "raised" /\ rt_out = <<Error(Len(calls))>>)
        /\ \A i \in 1..Len(rt_log) :
               IF rt_log[i].op = "sleep"
               THEN i > 1 /\ rt_log[i - 1].op = "func" /\ rt_log[i - 1].outcome = "raises"
               ELSE i > 1 => rt_log[i - 1].op = "sleep"
        /\ (RetryEnded /\ rt_log # <<>>) => Last(rt_log).op = "func"
        /\ rt_pc = "loop" => (rt_log = <<>> \/ Last(rt_log).op = "sleep")

\* three attempts failed: two sleeps, and the third exception is raised
C37_Witness ==
    /\ config.max_retries = 3
    /\ rt_pc = "raised"
    /\ rt_out = <<Error(3)>>
    /\ Len(SelectSeq(rt_log, LAMBDA e : e.op = "sleep")) = 2

\* C38: whatever the RetryConfig, a call that has ended has called func at least
\* once, and what it raised is an exception func raised
C38_FuncCalledAtLeastOnce ==
    RetryEnded =>
        /\ Len(CallsOf(rt_log)) >= 1
        /\ rt_out # <<>> /\ rt_out[1].call >= 1

-----------------------------------------------------------------------------
(* Properties of the manager's lifecycle (SpecLifecycle) *)

\* C39: after stop() no cleanup loop the manager started is running, and stop()
\* raises nothing, with or without a start() before it
C39_StopEndsEveryLoop ==
    lc_last.op = "stop" =>
        /\ ~lc_last.raised
        /\ \A t \in LoopIds : loops[t] # "running"

-----------------------------------------------------------------------------
(* Properties of the audio streams (SpecAudioLive) *)

\* C40: once stop() has been called both streams come to an end
C40_StreamsEndAfterStop == stopped ~> (in_done /\ out_done)

====
